---- MODULE Spec2Model ----
(***************************************************************************)
(* A model of promkit's cursor-bearing text editor                         *)
(* (promkit-widgets/src/text_editor.rs) over the styled grapheme sequence  *)
(* of promkit/src/grapheme.rs.                                             *)
(*                                                                         *)
(* Characters are Unicode code points (integers); a Rust String is the     *)
(* sequence of its code points and its len() is the sum of the UTF-8       *)
(* lengths of those code points.  Indices into sequences are 0-based in    *)
(* the operators' parameters, as in the source, and translated to TLA+'s   *)
(* 1-based sequences inside the sequence helpers only.                     *)
(***************************************************************************)
EXTENDS Integers, Sequences, FiniteSets, TLC

(***************************************************************************)
(* Bounds of the model.                                                    *)
(***************************************************************************)
\* insert/overwrite may grow the text (sentinel not counted) up to MaxLen.
MaxLen == 3
\* new(s) and replace(s) take strings of at most MaxNewLen characters.
MaxNewLen == 2
\* shift(backward, forward) takes arguments in 0..MaxShift.
MaxShift == 2

(***************************************************************************)
(* Characters and strings.                                                 *)
(***************************************************************************)
\* The sentinel character ' ' that TextEditor appends to every buffer.
SPACE == 32

\* The characters the keyboard may deliver: ' ', 'a', 'é' (2 bytes in
\* UTF-8) and U+1F60E (4 bytes, display width 2).
Chars == {SPACE, 97, 233, 128526}

\* The characters a word-break set is drawn from.
BreakChars == {SPACE, 97}
WordBreakSets == SUBSET BreakChars

\* All strings of length <= n over the characters cs.
StringsUpTo(cs, n) == UNION {[1..k -> cs] : k \in 0..n}
Strings == StringsUpTo(Chars, MaxNewLen)

\* char::len_utf8: the number of bytes of a code point in a String.
Utf8Len(c) ==
    IF c < 128 THEN 1 ELSE IF c < 2048 THEN 2 ELSE IF c < 65536 THEN 3 ELSE 4

\* String::len(): the length in BYTES.
RECURSIVE StrByteLen(_)
StrByteLen(s) == IF s = <<>> THEN 0 ELSE Utf8Len(Head(s)) + StrByteLen(Tail(s))

\* String::push(ch).
StrPush(s, ch) == Append(s, ch)

(***************************************************************************)
(* Styled graphemes (promkit/src/grapheme.rs).                             *)
(***************************************************************************)
\* ContentStyle::default().
DefaultStyle == "default"

\* UnicodeWidthChar::width(ch).unwrap_or(0) on the characters of the model.
UnicodeWidth(ch) == IF ch = 128526 THEN 2 ELSE IF ch = 769 THEN 0 ELSE 1

\* StyledGrapheme::new(ch, style).
StyledGrapheme_new(ch, style) ==
    [ch |-> ch, width |-> UnicodeWidth(ch), style |-> style]

\* impl From<char> for StyledGrapheme.
StyledGrapheme_from(ch) == StyledGrapheme_new(ch, DefaultStyle)

\* StyledGraphemes::from_str(string, style): one grapheme per char.
StyledGraphemes_from_str(s, style) ==
    [i \in 1..Len(s) |-> StyledGrapheme_new(s[i], style)]

\* impl From<S: AsRef<str>> for StyledGraphemes.
StyledGraphemes_from(s) == StyledGraphemes_from_str(s, DefaultStyle)

\* StyledGraphemes::chars().
chars(g) == [i \in 1..Len(g) |-> g[i].ch]

\* VecDeque::insert(index, value), index 0-based, index <= len.
VecInsert(g, index, value) ==
    SubSeq(g, 1, index) \o <<value>> \o SubSeq(g, index + 1, Len(g))

\* VecDeque::remove(index): removes the element if there is one.
VecRemove(g, index) ==
    IF index < Len(g)
    THEN SubSeq(g, 1, index) \o SubSeq(g, index + 2, Len(g))
    ELSE g

\* VecDeque::drain(start..end), start <= end <= len.
VecDrain(g, start, end) ==
    SubSeq(g, 1, start) \o SubSeq(g, end + 1, Len(g))

\* VecDeque::pop_back().
VecPopBack(g) == IF g = <<>> THEN g ELSE SubSeq(g, 1, Len(g) - 1)

\* The removal loop of replace_range: `for _ in range { remove(range.start) }`.
RECURSIVE RemoveTimes(_, _, _)
RemoveTimes(g, start, n) ==
    IF n <= 0 THEN g ELSE RemoveTimes(VecRemove(g, start), start, n - 1)

\* The insertion loop of replace_range: the replacement's graphemes are
\* inserted at range.start in reverse order.
RECURSIVE InsertReversed(_, _, _)
InsertReversed(g, start, r) ==
    IF r = <<>> THEN g
    ELSE InsertReversed(VecInsert(g, start, r[Len(r)]), start,
                        SubSeq(r, 1, Len(r) - 1))

\* StyledGraphemes::replace_range(start..end, replacement).
replace_range(g, start, end, replacement) ==
    InsertReversed(RemoveTimes(g, start, end - start), start,
                   StyledGraphemes_from(replacement))

(***************************************************************************)
(* Cursor<C>: contents, a position in them and the cyclic flag.  Its       *)
(* source file is not part of the sources at hand; these operators follow  *)
(* the specification's section 4.B and the Cursor invariant of section 3   *)
(* (the position always indexes an element of the contents), and agree     *)
(* with the editor's unit tests on forward/backward/move_to_head/tail.     *)
(***************************************************************************)
\* usize::saturating_sub.
saturating_sub(a, b) == IF a >= b THEN a - b ELSE 0

\* Cursor::new(contents, position, cyclic): a position past the last
\* element is put on the last element.
Cursor_new(contents, pos, cyclic) ==
    [contents |-> contents,
     position |-> IF pos >= Len(contents)
                  THEN saturating_sub(Len(contents), 1) ELSE pos,
     cyclic   |-> cyclic]

Cursor_is_head(c) == c.position = 0

Cursor_is_tail(c) == c.position = saturating_sub(Len(c.contents), 1)

\* Cursor::backward(): one step towards the head; wraps only when cyclic.
Cursor_backward(c) ==
    IF 0 < c.position THEN [c EXCEPT !.position = c.position - 1]
    ELSE IF c.cyclic
         THEN [c EXCEPT !.position = saturating_sub(Len(c.contents), 1)]
         ELSE c

\* Cursor::forward(): one step towards the tail; wraps only when cyclic.
Cursor_forward(c) ==
    IF Len(c.contents) # 0 /\ c.position < Len(c.contents) - 1
    THEN [c EXCEPT !.position = c.position + 1]
    ELSE IF c.cyclic THEN [c EXCEPT !.position = 0] ELSE c

\* Cursor::move_to(position): refused when the position is out of range.
Cursor_move_to(c, pos) ==
    IF pos < Len(c.contents) THEN [c EXCEPT !.position = pos] ELSE c

Cursor_move_to_head(c) == [c EXCEPT !.position = 0]

Cursor_move_to_tail(c) ==
    [c EXCEPT !.position = saturating_sub(Len(c.contents), 1)]

\* Cursor::shift(backward, forward): backward steps then forward steps, as
\* one move that is refused whole when it would leave the contents.
Cursor_shift(c, back, fwd) ==
    IF back > c.position THEN c
    ELSE IF (c.position - back) + fwd < Len(c.contents)
         THEN [c EXCEPT !.position = (c.position - back) + fwd]
         ELSE c

(***************************************************************************)
(* TextEditor (promkit-widgets/src/text_editor.rs): a non-cyclic cursor    *)
(* over styled graphemes.  Every operator takes the editor and returns the *)
(* editor after the call.                                                  *)
(***************************************************************************)
\* impl Default for TextEditor.
TextEditor_default == Cursor_new(StyledGraphemes_from(<<SPACE>>), 0, FALSE)

\* TextEditor::new(s): pos is computed from the BYTE length of the buffer.
TextEditor_new(s) ==
    LET buf == StrPush(s, SPACE)
        pos == StrByteLen(buf) - 1
    IN  Cursor_new(StyledGraphemes_from(buf), pos, FALSE)

\* TextEditor::text().
text(e) == e.contents

\* TextEditor::text_without_cursor().
text_without_cursor(e) == VecPopBack(text(e))

\* TextEditor::position().
position(e) == e.position

\* replace(new) that forgets to push the sentinel.
TextEditor_replace_NoSentinel(e, new) ==
    LET buf == new
        pos == saturating_sub(StrByteLen(buf), 1)
    IN  Cursor_new(StyledGraphemes_from(buf), pos, FALSE)

\* TextEditor::replace(new).
TextEditor_replace(e, new) ==
    LET buf == StrPush(new, SPACE)
        pos == StrByteLen(buf) - 1
    IN  Cursor_new(StyledGraphemes_from(buf), pos, FALSE)

\* backward() that delegates to the cursor's forward().
backward_AsForward(e) == Cursor_forward(e)

\* TextEditor::forward() / backward() / shift() / move_to_head() /
\* move_to_tail(): delegation to the cursor.
forward(e) == Cursor_forward(e)

backward(e) == Cursor_backward(e)

shift(e, back, fwd) == Cursor_shift(e, back, fwd)

move_to_head(e) == Cursor_move_to_head(e)

move_to_tail(e) == Cursor_move_to_tail(e)

\* insert(ch) that does not advance the cursor.
insert_NoForward(e, ch) ==
    LET pos == e.position
    IN  [e EXCEPT
           !.contents = VecInsert(e.contents, pos, StyledGrapheme_from(ch))]

\* TextEditor::insert(ch).
insert(e, ch) ==
    LET pos == position(e)
    IN  forward([e EXCEPT
                   !.contents = VecInsert(e.contents, pos, StyledGrapheme_from(ch))])

\* overwrite(ch) without the case of the cursor on the sentinel.
overwrite_NoTailCase(e, ch) ==
    LET pos == e.position
    IN  Cursor_forward([e EXCEPT
            !.contents = replace_range(e.contents, pos, pos + 1, <<ch>>)])

\* TextEditor::overwrite(ch).
overwrite(e, ch) ==
    IF Cursor_is_tail(e) THEN insert(e, ch)
    ELSE LET pos == position(e)
         IN  forward([e EXCEPT
                 !.contents = replace_range(e.contents, pos, pos + 1, <<ch>>)])

\* erase() that removes the grapheme under the cursor instead of the one
\* before it.
erase_NoBackward(e) ==
    IF ~ Cursor_is_head(e)
    THEN LET pos == e.position
         IN  [e EXCEPT !.contents = VecDrain(e.contents, pos, pos + 1)]
    ELSE e

\* TextEditor::erase().
erase(e) ==
    IF ~ Cursor_is_head(e)
    THEN LET b   == backward(e)
             pos == position(b)
         IN  [b EXCEPT !.contents = VecDrain(b.contents, pos, pos + 1)]
    ELSE e

\* TextEditor::erase_all().
erase_all(e) == TextEditor_default

\* erase_to_position(pos) that does not move the cursor after draining
\* backwards.
erase_to_position_NoMove(e, pos) ==
    LET current_pos == e.position
    IN  IF pos > current_pos
        THEN [e EXCEPT !.contents = VecDrain(e.contents, current_pos, pos)]
        ELSE [e EXCEPT !.contents = VecDrain(e.contents, pos, current_pos)]

\* erase_to_position(pos) that, draining backwards, also removes the
\* grapheme under the cursor.
erase_to_position_Inclusive(e, pos) ==
    LET current_pos == e.position
    IN  IF pos > current_pos
        THEN [e EXCEPT !.contents = VecDrain(e.contents, current_pos, pos)]
        ELSE Cursor_move_to(
                 [e EXCEPT !.contents = VecDrain(e.contents, pos, current_pos + 1)],
                 pos)

\* TextEditor::erase_to_position(pos).
erase_to_position(e, pos) ==
    LET current_pos == position(e)
    IN  IF pos > current_pos
        THEN [e EXCEPT !.contents = VecDrain(e.contents, current_pos, pos)]
        ELSE Cursor_move_to(
                 [e EXCEPT !.contents = VecDrain(e.contents, pos, current_pos)],
                 pos)

\* Option::None of the two index searches below.
None == -1

\* `.enumerate().filter(i < bound).rev().find(c in word_break_chars)`:
\* the characters are visited from the last index i down to 0.
RECURSIVE RevFind(_, _, _, _)
RevFind(cs, i, bound, word_break_chars) ==
    IF i < 0 THEN None
    ELSE IF i < bound /\ cs[i + 1] \in word_break_chars THEN i
    ELSE RevFind(cs, i - 1, bound, word_break_chars)

\* find_previous_nearest_index that also looks at the grapheme just before
\* the cursor (filter `i < current_position`).
find_previous_nearest_index_NoSkip(e, word_break_chars) ==
    LET cs    == chars(e.contents)
        found == RevFind(cs, Len(cs) - 1, e.position, word_break_chars)
    IN  IF found # None THEN found + 1 ELSE 0

\* TextEditor::find_previous_nearest_index(word_break_chars).
find_previous_nearest_index(e, word_break_chars) ==
    LET current_position == position(e)
        cs    == chars(text(e))
        found == RevFind(cs, Len(cs) - 1,
                         saturating_sub(current_position, 1), word_break_chars)
    IN  IF found # None THEN found + 1 ELSE 0

\* TextEditor::erase_to_previous_nearest(word_break_chars).
erase_to_previous_nearest(e, word_break_chars) ==
    erase_to_position(e, find_previous_nearest_index(e, word_break_chars))

\* move_to_previous_nearest that may stop just after the grapheme before
\* the cursor, that is, where the cursor is.
move_to_previous_nearest_NoSkip(e, word_break_chars) ==
    Cursor_move_to(e, find_previous_nearest_index_NoSkip(e, word_break_chars))

\* TextEditor::move_to_previous_nearest(word_break_chars).
move_to_previous_nearest(e, word_break_chars) ==
    Cursor_move_to(e, find_previous_nearest_index(e, word_break_chars))

\* `.enumerate().filter(i > bound).find(c in word_break_chars)`: the
\* characters are visited from index i up to the last one.
RECURSIVE FwdFind(_, _, _, _)
FwdFind(cs, i, bound, word_break_chars) ==
    IF i >= Len(cs) THEN None
    ELSE IF i > bound /\ cs[i + 1] \in word_break_chars THEN i
    ELSE FwdFind(cs, i + 1, bound, word_break_chars)

\* find_next_nearest_index that does not clamp i + 1 to the sentinel.
find_next_nearest_index_Unclamped(e, word_break_chars) ==
    LET cs    == chars(e.contents)
        found == FwdFind(cs, 0, e.position, word_break_chars)
    IN  IF found # None THEN found + 1 ELSE Len(e.contents) - 1

\* find_next_nearest_index that also looks at the grapheme under the
\* cursor (filter `i >= current_position`).
find_next_nearest_index_Inclusive(e, word_break_chars) ==
    LET cs    == chars(e.contents)
        found == FwdFind(cs, 0, e.position - 1, word_break_chars)
    IN  IF found # None
        THEN IF found < Len(e.contents) - 1 THEN found + 1
             ELSE Len(e.contents) - 1
        ELSE Len(e.contents) - 1

\* TextEditor::find_next_nearest_index(word_break_chars).
find_next_nearest_index(e, word_break_chars) ==
    LET current_position == position(e)
        cs    == chars(text(e))
        found == FwdFind(cs, 0, current_position, word_break_chars)
    IN  IF found # None
        THEN IF found < Len(e.contents) - 1 THEN found + 1
             ELSE Len(e.contents) - 1
        ELSE Len(e.contents) - 1

\* TextEditor::erase_to_next_nearest(word_break_chars).
erase_to_next_nearest(e, word_break_chars) ==
    erase_to_position(e, find_next_nearest_index(e, word_break_chars))

\* TextEditor::move_to_next_nearest(word_break_chars).
move_to_next_nearest(e, word_break_chars) ==
    Cursor_move_to(e, find_next_nearest_index(e, word_break_chars))

(***************************************************************************)
(* The editor as a state machine.  `editor` is the TextEditor; `pre` is    *)
(* the editor as it was when the latest operation was called and `call`    *)
(* that operation with its arguments, so that the effect of an operation   *)
(* can be stated over a single state.                                      *)
(***************************************************************************)
VARIABLES editor, pre, call

\* The variables of the other parts of the library, each with the state
\* before its latest call and that call where effects are stated:
\* the viewer's State<V> snapshot, the JSON renderer and the panes it built,
\* the Confirm prompt, and the JSON and generic tree nodes.
VARIABLES snap, snap_pre, snap_call, snap_log,
          renderer, panes,
          confirm, confirm_pre, confirm_call,
          json, tree, node_pre, node_call

\* A styled grapheme sequence and the latest operation applied to it, with
\* its arguments and what it returned.
VARIABLES graphemes, g_call

\* The checkbox, the keymap switcher with the progress of evaluate, and
\* the select state, each with the state before its latest call and that
\* call where effects are stated.
VARIABLES checkbox, checkbox_pre, checkbox_call,
          switcher, evaluating,
          select, select_pre, select_call

editorVars == <<editor, pre, call>>
viewerVars == <<snap, snap_pre, snap_call, snap_log>>
paneVars == <<renderer, panes>>
confirmVars == <<confirm, confirm_pre, confirm_call>>
nodeVars == <<json, tree, node_pre, node_call>>

graphemeVars == <<graphemes, g_call>>
checkboxVars == <<checkbox, checkbox_pre, checkbox_call>>
switcherVars == <<switcher, evaluating>>
selectVars == <<select, select_pre, select_call>>

vars ==
    <<editorVars, viewerVars, paneVars, confirmVars, nodeVars, graphemeVars,
      checkboxVars, switcherVars, selectVars>>

\* The value of the variables of a part that a specification does not
\* construct.
Absent == "absent"

NoEditor == editor = Absent /\ pre = Absent /\ call = Absent
NoViewer ==
    snap = Absent /\ snap_pre = Absent /\ snap_call = Absent /\ snap_log = Absent
NoPanes == renderer = Absent /\ panes = Absent
NoConfirm == confirm = Absent /\ confirm_pre = Absent /\ confirm_call = Absent
NoNodes ==
    json = Absent /\ tree = Absent /\ node_pre = Absent /\ node_call = Absent
NoGraphemes == graphemes = Absent /\ g_call = Absent
NoCheckbox ==
    checkbox = Absent /\ checkbox_pre = Absent /\ checkbox_call = Absent
NoSwitcher == switcher = Absent /\ evaluating = Absent
NoSelect == select = Absent /\ select_pre = Absent /\ select_call = Absent
NoWidgets == NoCheckbox /\ NoSwitcher /\ NoSelect

\* Only the editor takes part in the steps of the editor's operations.
EditorOnly ==
    UNCHANGED <<viewerVars, paneVars, confirmVars, nodeVars, graphemeVars,
                checkboxVars, switcherVars, selectVars>>

\* A call record: the operation and the arguments it was given.
Call(op, ch, wbc, s, back, fwd) ==
    [op |-> op, ch |-> ch, wbc |-> wbc, s |-> s, back |-> back, fwd |-> fwd]

CallOp(op)            == Call(op, 0, {}, <<>>, 0, 0)
CallCh(op, ch)        == Call(op, ch, {}, <<>>, 0, 0)
CallWbc(op, wbc)      == Call(op, 0, wbc, <<>>, 0, 0)
CallStr(op, s)        == Call(op, 0, {}, s, 0, 0)
CallShift(back, fwd)  == Call("shift", 0, {}, <<>>, back, fwd)

\* The editor is constructed by TextEditor::default() or TextEditor::new(s).
InitEditor ==
    /\ \/ /\ editor = TextEditor_default
          /\ pre = editor
          /\ call = CallOp("default")
       \/ \E s \in Strings :
             /\ editor = TextEditor_new(s)
             /\ pre = editor
             /\ call = CallStr("new", s)
    /\ NoViewer /\ NoPanes /\ NoConfirm /\ NoNodes /\ NoGraphemes /\ NoWidgets

Replace ==
    \E s \in Strings :
        /\ editor' = TextEditor_replace(editor, s)
        /\ pre' = editor
        /\ call' = CallStr("replace", s)
        /\ EditorOnly

\* The text may grow while it holds fewer than MaxLen characters.
MayGrow == Len(editor.contents) - 1 < MaxLen

Insert ==
    /\ MayGrow
    /\ \E ch \in Chars :
          /\ editor' = insert(editor, ch)
          /\ pre' = editor
          /\ call' = CallCh("insert", ch)
          /\ EditorOnly

Overwrite ==
    /\ Cursor_is_tail(editor) => MayGrow
    /\ \E ch \in Chars :
          /\ editor' = overwrite(editor, ch)
          /\ pre' = editor
          /\ call' = CallCh("overwrite", ch)
          /\ EditorOnly

Erase ==
    /\ editor' = erase(editor)
    /\ pre' = editor
    /\ call' = CallOp("erase")
    /\ EditorOnly

EraseAll ==
    /\ editor' = erase_all(editor)
    /\ pre' = editor
    /\ call' = CallOp("erase_all")
    /\ EditorOnly

EraseToPreviousNearest ==
    \E wbc \in WordBreakSets :
        /\ editor' = erase_to_previous_nearest(editor, wbc)
        /\ pre' = editor
        /\ call' = CallWbc("erase_to_previous_nearest", wbc)
        /\ EditorOnly

MoveToPreviousNearest ==
    \E wbc \in WordBreakSets :
        /\ editor' = move_to_previous_nearest(editor, wbc)
        /\ pre' = editor
        /\ call' = CallWbc("move_to_previous_nearest", wbc)
        /\ EditorOnly

EraseToNextNearest ==
    \E wbc \in WordBreakSets :
        /\ editor' = erase_to_next_nearest(editor, wbc)
        /\ pre' = editor
        /\ call' = CallWbc("erase_to_next_nearest", wbc)
        /\ EditorOnly

MoveToNextNearest ==
    \E wbc \in WordBreakSets :
        /\ editor' = move_to_next_nearest(editor, wbc)
        /\ pre' = editor
        /\ call' = CallWbc("move_to_next_nearest", wbc)
        /\ EditorOnly

MoveToHead ==
    /\ editor' = move_to_head(editor)
    /\ pre' = editor
    /\ call' = CallOp("move_to_head")
    /\ EditorOnly

MoveToTail ==
    /\ editor' = move_to_tail(editor)
    /\ pre' = editor
    /\ call' = CallOp("move_to_tail")
    /\ EditorOnly

Shift ==
    \E back \in 0..MaxShift, fwd \in 0..MaxShift :
        /\ editor' = shift(editor, back, fwd)
        /\ pre' = editor
        /\ call' = CallShift(back, fwd)
        /\ EditorOnly

Backward ==
    /\ editor' = backward(editor)
    /\ pre' = editor
    /\ call' = CallOp("backward")
    /\ EditorOnly

Forward ==
    /\ editor' = forward(editor)
    /\ pre' = editor
    /\ call' = CallOp("forward")
    /\ EditorOnly

NextEditor ==
    \/ Replace
    \/ Insert
    \/ Overwrite
    \/ Erase
    \/ EraseAll
    \/ EraseToPreviousNearest
    \/ MoveToPreviousNearest
    \/ EraseToNextNearest
    \/ MoveToNextNearest
    \/ MoveToHead
    \/ MoveToTail
    \/ Shift
    \/ Backward
    \/ Forward

SpecEditor == InitEditor /\ [][NextEditor]_vars

(***************************************************************************)
(* The word-wise operations on the buffer of the editor's unit tests: the  *)
(* editor is built by the tests' new_with_position("koko momo jojo ", p).  *)
(***************************************************************************)
\* "koko momo jojo " (the sentinel included).
KokoMomoJojo ==
    <<107, 111, 107, 111, SPACE, 109, 111, 109, 111, SPACE,
      106, 111, 106, 111, SPACE>>

\* test::new_with_position(s, p).
new_with_position(s, p) == Cursor_new(StyledGraphemes_from(s), p, FALSE)

InitWords ==
    \E p \in 0..(Len(KokoMomoJojo) - 1) :
        /\ editor = new_with_position(KokoMomoJojo, p)
        /\ pre = editor
        /\ call = Call("new_with_position", 0, {}, KokoMomoJojo, p, 0)
        /\ NoViewer /\ NoPanes /\ NoConfirm /\ NoNodes /\ NoGraphemes /\ NoWidgets

NextWords ==
    \/ EraseToPreviousNearest
    \/ MoveToPreviousNearest
    \/ EraseToNextNearest
    \/ MoveToNextNearest

SpecWords == InitWords /\ [][NextWords]_vars

(***************************************************************************)
(* Properties of the text editor.                                          *)
(***************************************************************************)
\* The sentinel grapheme: a space in the default style.
Sentinel == StyledGrapheme_from(SPACE)

\* The contents of g without the 0-based indices [from, to).
Without(g, from, to) ==
    [i \in 1..(Len(g) - (to - from)) |-> IF i <= from THEN g[i] ELSE g[i + (to - from)]]

\* C1: from default(), new(s) or replace(s) on, after any sequence of the
\* editing and moving operations the buffer is non-empty and its last
\* grapheme is the sentinel space.
C1_SentinelKept ==
    /\ Len(editor.contents) >= 1
    /\ editor.contents[Len(editor.contents)] = Sentinel

\* An erase_to_next_nearest has removed every grapheme up to the sentinel.
C1_Witness ==
    /\ call.op = "erase_to_next_nearest"
    /\ Len(pre.contents) >= 3
    /\ Len(editor.contents) = 1

\* C2: the cursor position stays within 0..len-1 (len counts the sentinel)
\* across every operation, shift included: the cursor never passes the
\* sentinel.
C2_CursorInRange ==
    /\ 0 <= editor.position
    /\ editor.position <= Len(editor.contents) - 1

\* A shift that would have carried the cursor past the sentinel was called.
C2_Witness ==
    /\ call.op = "shift"
    /\ call.back <= pre.position
    /\ (pre.position - call.back) + call.fwd >= Len(pre.contents)

\* C3: after new(s) or replace(s), for every s (multi-byte characters
\* included), text_without_cursor() is s and position() is the number of
\* characters of s.
C3_NewReplaceOnSentinel ==
    call.op \in {"new", "replace"} =>
        /\ text_without_cursor(editor) = StyledGraphemes_from(call.s)
        /\ chars(text_without_cursor(editor)) = call.s
        /\ position(editor) = Len(call.s)

\* replace(s) was called with a string of two multi-byte characters.
C3_Witness ==
    /\ call.op = "replace"
    /\ Len(call.s) = 2
    /\ \A i \in 1..Len(call.s) : Utf8Len(call.s[i]) > 1

\* C4: in every editor state and for every character c, insert(c) followed
\* by erase() gives back the buffer and the cursor position.
C4_InsertEraseIdentity ==
    \A ch \in Chars : erase(insert(editor, ch)) = editor

\* An insert was made in the middle of a text, and erase() undoes it.
C4_Witness ==
    /\ call.op = "insert"
    /\ 0 < pre.position
    /\ pre.position < Len(pre.contents) - 1
    /\ editor # pre
    /\ erase(editor) = pre

\* C5: erase() at position 0 changes nothing; at position p > 0 it removes
\* exactly the grapheme at index p-1, keeps the others in order and sets
\* the position to p-1.
C5_Erase ==
    call.op = "erase" =>
        IF pre.position = 0
        THEN editor = pre
        ELSE /\ editor.contents =
                    Without(pre.contents, pre.position - 1, pre.position)
             /\ editor.position = pre.position - 1

\* erase() was called between two graphemes of the text.
C5_Witness ==
    /\ call.op = "erase"
    /\ 0 < pre.position
    /\ pre.position < Len(pre.contents) - 1
    /\ Len(editor.contents) = Len(pre.contents) - 1

\* C6: overwrite(ch) on the sentinel is insert(ch): the length grows by
\* one, ch stands before the sentinel and the cursor is on the sentinel;
\* at p < len-1 the length is kept, only the grapheme at p is replaced by
\* ch and the position becomes p+1.
C6_Overwrite ==
    call.op = "overwrite" =>
        LET p   == pre.position
            len == Len(pre.contents)
        IN  IF p = len - 1
            THEN /\ editor = insert(pre, call.ch)
                 /\ Len(editor.contents) = len + 1
                 /\ editor.contents =
                        SubSeq(pre.contents, 1, len - 1)
                            \o <<StyledGrapheme_from(call.ch), Sentinel>>
                 /\ editor.position = len
            ELSE /\ Len(editor.contents) = len
                 /\ \A i \in 1..len :
                        editor.contents[i] =
                            IF i = p + 1 THEN StyledGrapheme_from(call.ch)
                            ELSE pre.contents[i]
                 /\ editor.position = p + 1

\* overwrite(ch) replaced a different grapheme before the sentinel.
C6_Witness ==
    /\ call.op = "overwrite"
    /\ pre.position < Len(pre.contents) - 1
    /\ pre.contents[pre.position + 1].ch # call.ch
    /\ Len(pre.contents) >= 3

\* The backward target of claim C7 for the editor e and the break set B:
\* i+1 for the greatest i < p-1 with text[i] in B, or 0 if there is none.
BackwardTarget(e, B) ==
    LET I == {i \in 0..(Len(e.contents) - 1) :
                 i < e.position - 1 /\ e.contents[i + 1].ch \in B}
    IN  IF I = {} THEN 0 ELSE (CHOOSE i \in I : \A j \in I : j <= i) + 1

\* C7: move_to_previous_nearest(B) sets the position to the backward
\* target t and keeps the buffer; erase_to_previous_nearest(B) removes
\* exactly the graphemes at [t, p), sets the position to t and keeps the
\* graphemes from the old cursor position on.
C7_PreviousNearest ==
    LET p == pre.position
        t == BackwardTarget(pre, call.wbc)
    IN  /\ call.op = "move_to_previous_nearest" =>
               /\ editor.position = t
               /\ editor.contents = pre.contents
        /\ call.op = "erase_to_previous_nearest" =>
               /\ t <= p
               /\ editor.contents = Without(pre.contents, t, p)
               /\ editor.position = t
               /\ SubSeq(editor.contents, t + 1, Len(editor.contents)) =
                      SubSeq(pre.contents, p + 1, Len(pre.contents))

\* erase_to_previous_nearest stopped just after a word break inside the
\* text and removed at least one grapheme.
C7_Witness ==
    /\ call.op = "erase_to_previous_nearest"
    /\ BackwardTarget(pre, call.wbc) > 0
    /\ BackwardTarget(pre, call.wbc) < pre.position
    /\ editor.position = BackwardTarget(pre, call.wbc)

\* "koko momo jo " (the sentinel included).
KokoMomoJo ==
    <<107, 111, 107, 111, SPACE, 109, 111, 109, 111, SPACE,
      106, 111, SPACE>>

\* "koko momo ojo " (the sentinel included).
KokoMomoOjo ==
    <<107, 111, 107, 111, SPACE, 109, 111, 109, 111, SPACE,
      111, 106, 111, SPACE>>

\* The state scenario S5 starts from.
S5_Pre == new_with_position(KokoMomoJojo, 11)

\* The call of scenario S5 has just been made.
S5_Called ==
    /\ call.op = "erase_to_previous_nearest"
    /\ call.wbc = {SPACE}
    /\ pre = S5_Pre

\* C8 as stated (scenario S5): with the buffer "koko momo jojo ", the
\* cursor at 11 and the word-break set {' '}, erase_to_previous_nearest
\* leaves the buffer "koko momo jo " and the cursor at 10.
C8_ScenarioS5_Stated ==
    S5_Called =>
        /\ editor.contents = StyledGraphemes_from(KokoMomoJo)
        /\ editor.position = 10

\* C8 as amended: with the buffer "koko momo jojo ", the cursor at 11 and
\* the word-break set {' '}, erase_to_previous_nearest removes only the 'j'
\* at index 10: it leaves the buffer "koko momo ojo " and the cursor at 10.
C8_ScenarioS5 ==
    S5_Called =>
        /\ editor.contents = StyledGraphemes_from(KokoMomoOjo)
        /\ editor.position = 10

\* The scenario's call has been made and has removed one grapheme.
C8_Witness ==
    /\ S5_Called
    /\ Len(editor.contents) = Len(pre.contents) - 1

\* The forward target of claim C9 for the editor e and the break set B:
\* min(i+1, len-1) for the least i > p with text[i] in B, or len-1.
ForwardTarget(e, B) ==
    LET len == Len(e.contents)
        I   == {i \in 0..(len - 1) :
                   i > e.position /\ e.contents[i + 1].ch \in B}
    IN  IF I = {} THEN len - 1
        ELSE LET i == CHOOSE i \in I : \A j \in I : i <= j
             IN  IF i + 1 <= len - 1 THEN i + 1 ELSE len - 1

\* C9: move_to_next_nearest(B) sets the position to the forward target t;
\* erase_to_next_nearest(B) removes exactly the graphemes at [p, t), leaves
\* the position at p and never removes the sentinel.
C9_NextNearest ==
    LET p == pre.position
        t == ForwardTarget(pre, call.wbc)
    IN  /\ call.op = "move_to_next_nearest" =>
               /\ editor.position = t
               /\ editor.contents = pre.contents
        /\ call.op = "erase_to_next_nearest" =>
               /\ p <= t
               /\ editor.contents = Without(pre.contents, p, t)
               /\ editor.position = p
               /\ editor.contents[Len(editor.contents)] = Sentinel

\* erase_to_next_nearest removed graphemes up to a word break that lies
\* before the sentinel.
C9_Witness ==
    /\ call.op = "erase_to_next_nearest"
    /\ ForwardTarget(pre, call.wbc) > pre.position + 1
    /\ ForwardTarget(pre, call.wbc) < Len(pre.contents) - 1
    /\ Len(editor.contents) < Len(pre.contents)

\* C10: forward() then backward() restores the position, and never changes
\* the buffer, from every position but the tail; forward() at the tail and
\* backward() at the head leave the position unchanged.
C10_ForwardBackward ==
    /\ ~ Cursor_is_tail(editor) => backward(forward(editor)) = editor
    /\ forward(editor).contents = editor.contents
    /\ backward(editor).contents = editor.contents
    /\ Cursor_is_tail(editor) => forward(editor).position = editor.position
    /\ Cursor_is_head(editor) => backward(editor).position = editor.position

\* forward() moved the cursor from a position before the tail, and
\* backward() takes it back.
C10_Witness ==
    /\ call.op = "forward"
    /\ pre.position < Len(pre.contents) - 1
    /\ editor.position = pre.position + 1
    /\ backward(editor) = pre

(***************************************************************************)
(* The viewer's snapshot State<V> (src/viewer.rs).  V is any Viewable; the *)
(* model takes the free one, whose value is the sequence of the calls      *)
(* applied to it, so that two widget states are equal only if the same     *)
(* calls were applied in the same order: every Viewable is an image of it. *)
(***************************************************************************)
\* A snapshot takes at most MaxEvents handle_event/postrun calls.
MaxEvents == 4
\* Panes are made for the widths 1..MaxWidth.
MaxWidth == 2

\* The terminal events delivered to a widget.
Events == {"Enter", "Char", "Left"}

\* Viewable::handle_event of V.
V_handle_event(v, event) == Append(v, event)

\* Viewable::postrun of V.
V_postrun(v) == Append(v, "postrun")

\* Viewable::make_pane of V: the pane shows the widget at the given width.
V_make_pane(v, width) == [shows |-> v, width |-> width]

\* State::new(viewable).
State_new(viewable) ==
    [init |-> viewable, before |-> viewable, after |-> viewable]

\* make_pane that renders the widget as it was before the last event.
State_make_pane_Before(st, width) == V_make_pane(st.before, width)

\* <State<V> as Viewable>::make_pane(width).
State_make_pane(st, width) == V_make_pane(st.after, width)

\* handle_event that clones `after` into `before` only after the event was
\* applied.
State_handle_event_CloneLate(st, event) ==
    LET applied == [st EXCEPT !.after = V_handle_event(st.after, event)]
    IN  [applied EXCEPT !.before = applied.after]

\* <State<V> as Viewable>::handle_event(event).
State_handle_event(st, event) ==
    LET cloned == [st EXCEPT !.before = st.after]
    IN  [cloned EXCEPT !.after = V_handle_event(cloned.after, event)]

\* postrun that leaves `init` alone.
State_postrun_KeepInit(st) ==
    LET run == [st EXCEPT !.after = V_postrun(st.after)]
    IN  [run EXCEPT !.before = run.after]

\* <State<V> as Viewable>::postrun().
State_postrun(st) ==
    LET run   == [st EXCEPT !.after = V_postrun(st.after)]
        reset == [run EXCEPT !.init = run.after]
    IN  [reset EXCEPT !.before = reset.after]

\* Only the snapshot takes part in the steps of its operations.
ViewerOnly ==
    UNCHANGED <<editorVars, paneVars, confirmVars, nodeVars, graphemeVars,
                checkboxVars, switcherVars, selectVars>>

\* A call on the snapshot: the operation, its event or width and, for
\* make_pane, the pane returned.
SnapCall(op, event, width, pane) ==
    [op |-> op, event |-> event, width |-> width, pane |-> pane]

\* The snapshot is built by State::new over a fresh widget; snap_log is the
\* widget it was built with and the handle_event/postrun calls made since.
InitViewer ==
    /\ snap = State_new(<<>>)
    /\ snap_pre = snap
    /\ snap_call = SnapCall("new", "", 0, <<>>)
    /\ snap_log = [v0 |-> <<>>, calls |-> <<>>]
    /\ NoEditor /\ NoPanes /\ NoConfirm /\ NoNodes /\ NoGraphemes /\ NoWidgets

HandleEvent ==
    /\ Len(snap_log.calls) < MaxEvents
    /\ \E event \in Events :
          /\ snap' = State_handle_event(snap, event)
          /\ snap_pre' = snap
          /\ snap_call' = SnapCall("handle_event", event, 0, <<>>)
          /\ snap_log' = [snap_log EXCEPT !.calls = Append(@, event)]
          /\ ViewerOnly

Postrun ==
    /\ Len(snap_log.calls) < MaxEvents
    /\ snap' = State_postrun(snap)
    /\ snap_pre' = snap
    /\ snap_call' = SnapCall("postrun", "", 0, <<>>)
    /\ snap_log' = [snap_log EXCEPT !.calls = Append(@, "postrun")]
    /\ ViewerOnly

MakePane ==
    \E width \in 1..MaxWidth :
        /\ snap' = snap
        /\ snap_pre' = snap
        /\ snap_call' =
               SnapCall("make_pane", "", width, State_make_pane(snap, width))
        /\ snap_log' = snap_log
        /\ ViewerOnly

NextViewer ==
    \/ HandleEvent
    \/ Postrun
    \/ MakePane

SpecViewer == InitViewer /\ [][NextViewer]_vars

(***************************************************************************)
(* Properties of the snapshot.                                             *)
(***************************************************************************)
\* The widget obtained from v by the calls cs, applied in order.
RECURSIVE Replay(_, _)
Replay(v, cs) ==
    IF cs = <<>> THEN v
    ELSE Replay(IF Head(cs) = "postrun" THEN V_postrun(v)
                ELSE V_handle_event(v, Head(cs)),
                Tail(cs))

\* C11 as stated: init always holds the state the snapshot was constructed
\* with, whatever handle_event and postrun calls were made.
C11_InitFixed_Stated == snap.init = snap_log.v0

\* C11 as amended: handle_event (and make_pane) never change init, and init
\* holds the state the snapshot was constructed with until the first
\* postrun; postrun replaces init, and before, by the widget state after
\* the widget's own postrun.
C11_InitFixedUntilPostrun ==
    /\ snap_call.op \in {"handle_event", "make_pane"} =>
           snap.init = snap_pre.init
    /\ (\A i \in 1..Len(snap_log.calls) : snap_log.calls[i] # "postrun") =>
           snap.init = snap_log.v0
    /\ snap_call.op = "postrun" =>
           /\ snap.after = V_postrun(snap_pre.after)
           /\ snap.init = snap.after
           /\ snap.before = snap.after

\* A postrun after an event has replaced the state the snapshot was
\* constructed with.
C11_Witness ==
    /\ snap_call.op = "postrun"
    /\ snap_pre.after # snap_pre.init
    /\ snap.init # snap_log.v0
    /\ snap.init = snap.after

\* C12: handle_event(e) sets before to the value after held just before the
\* call and applies e to after only; so at the end of a tick before is the
\* widget at the start of the tick and after the widget after the event.
C12_HandleEvent ==
    snap_call.op = "handle_event" =>
        /\ snap.before = snap_pre.after
        /\ snap.after = V_handle_event(snap_pre.after, snap_call.event)
        /\ snap.init = snap_pre.init

\* handle_event was called on a snapshot whose before and after differed.
C12_Witness ==
    /\ snap_call.op = "handle_event"
    /\ snap_pre.before # snap_pre.after
    /\ snap.before # snap_pre.before
    /\ snap.before # snap.after

\* C13: the pane made after the N-th call is the pane of the widget
\* obtained by applying the calls 1..N, in arrival order and once each, to
\* the widget the snapshot was built with: make_pane renders after.
C13_PaneOfAllEvents ==
    LET replayed == Replay(snap_log.v0, snap_log.calls)
    IN  /\ \A width \in 1..MaxWidth :
               State_make_pane(snap, width) = V_make_pane(replayed, width)
        /\ snap_call.op = "make_pane" =>
               snap_call.pane = V_make_pane(replayed, snap_call.width)

\* A pane was made after two different events, so that it differs from the
\* panes of init and of before.
C13_Witness ==
    /\ snap_call.op = "make_pane"
    /\ Len(snap_log.calls) >= 2
    /\ \A i \in 1..Len(snap_log.calls) : snap_log.calls[i] # "postrun"
    /\ snap_log.calls[1] # snap_log.calls[2]
    /\ snap_call.pane # V_make_pane(snap.init, snap_call.width)

(***************************************************************************)
(* Panes and the renderers' create_panes                                   *)
(* (promkit/src/grapheme.rs, pane.rs, preset/json/render.rs,               *)
(* preset/readline/render.rs).                                             *)
(***************************************************************************)
\* The widgets' contents have at most MaxContent characters.
MaxContent == 2
\* Panes are made for the heights 0..MaxHeight.
MaxHeight == 3

\* The contents of the widgets: narrow and wide characters.
PaneChars == {97, 128526}
Contents == StringsUpTo(PaneChars, MaxContent)

\* The fold of matrixify: the display width of a row.
RECURSIVE RowWidth(_)
RowWidth(row) ==
    IF row = <<>> THEN 0 ELSE RowWidth(VecPopBack(row)) + row[Len(row)].width

\* The first loop of matrixify: wrap the graphemes gs into rows of at most
\* `width` columns; `all` holds the rows finished and `row` the open one.
RECURSIVE Wrap(_, _, _, _)
RECURSIVE Wrap_DropOnBreak(_, _, _, _)
RECURSIVE Wrap_KeepWide(_, _, _, _)

\* The wrapping loop, losing the grapheme that does not fit the open row.
Wrap_DropOnBreak(gs, width, all, row) ==
    IF gs = <<>>
    THEN IF row # <<>> THEN Append(all, row) ELSE all
    ELSE LET styled == Head(gs)
             full == row # <<>> /\ width < RowWidth(row) + styled.width
         IN  IF full
             THEN Wrap_DropOnBreak(Tail(gs), width, Append(all, row), <<>>)
             ELSE Wrap_DropOnBreak(Tail(gs), width, all,
                      IF width >= styled.width
                      THEN Append(row, styled) ELSE row)

\* The wrapping loop, keeping the graphemes wider than the rows.
Wrap_KeepWide(gs, width, all, row) ==
    IF gs = <<>>
    THEN IF row # <<>> THEN Append(all, row) ELSE all
    ELSE LET styled == Head(gs)
             full == row # <<>> /\ width < RowWidth(row) + styled.width
         IN  Wrap_KeepWide(Tail(gs), width,
                 IF full THEN Append(all, row) ELSE all,
                 Append(IF full THEN <<>> ELSE row, styled))

Wrap(gs, width, all, row) ==
    IF gs = <<>>
    THEN IF row # <<>> THEN Append(all, row) ELSE all
    ELSE LET styled == Head(gs)
             full == row # <<>> /\ width < RowWidth(row) + styled.width
             all1 == IF full THEN Append(all, row) ELSE all
             row1 == IF full THEN <<>> ELSE row
             row2 == IF width >= styled.width
                     THEN Append(row1, styled) ELSE row1
         IN  Wrap(Tail(gs), width, all1, row2)

\* The second loop of matrixify: drop rows from the front while the offset
\* lasts and from the back afterwards, until at most `height` rows are left.
RECURSIVE Paginate(_, _, _)
RECURSIVE Paginate_BackOnly(_, _, _)

\* The second loop of matrixify, dropping rows from the back only.
Paginate_BackOnly(all, height, offset) ==
    IF Len(all) > height /\ offset < Len(all)
    THEN Paginate_BackOnly(VecPopBack(all), height, offset)
    ELSE [rows |-> all, offset |-> offset]

Paginate(all, height, offset) ==
    IF Len(all) > height /\ offset < Len(all)
    THEN IF offset > 0
         THEN Paginate(Tail(all), height, offset - 1)
         ELSE Paginate(VecPopBack(all), height, offset)
    ELSE [rows |-> all, offset |-> offset]

\* StyledGraphemes::matrixify(width, height, offset).
matrixify(gs, width, height, offset) ==
    LET all == Wrap(gs, width, <<>>, <<>>)
        least == IF offset <= saturating_sub(Len(all), 1)
                 THEN offset ELSE saturating_sub(Len(all), 1)
    IN  IF all = <<>> THEN [rows |-> <<>>, offset |-> 0]
        ELSE Paginate(all, height, least)

\* Pane::new(layout).
Pane_new(layout) == [layout |-> layout]

\* Pane::visible_row_count().
visible_row_count(pane) == Len(pane.layout)

\* PaneFactory::create_pane(width, height) of a snapshot of a text widget:
\* the content, wrapped and paginated from offset 0.
Snapshot_create_pane(content, width, height) ==
    Pane_new(matrixify(StyledGraphemes_from(content), width, height, 0).rows)

\* create_pane(width) of the readline widgets: the content wrapped, with no
\* height to paginate to.
Snapshot_create_pane_width(content, width) ==
    Pane_new(Wrap(StyledGraphemes_from(content), width, <<>>, <<>>))

\* create_panes that gives the JSON widget the height the title left.
json_Renderer_create_panes_Residual(r, width, height) ==
    LET title == Snapshot_create_pane(r.title_snapshot, width, height)
    IN  << title,
           Snapshot_create_pane(r.json_snapshot, width,
               saturating_sub(height, visible_row_count(title))) >>

\* preset::json::Renderer::create_panes(width, height).
json_Renderer_create_panes(r, width, height) ==
    << Snapshot_create_pane(r.title_snapshot, width, height),
       Snapshot_create_pane(r.json_snapshot, width, height) >>

\* preset::readline::Renderer::create_panes(width).
readline_Renderer_create_panes(r, width) ==
    << Snapshot_create_pane_width(r.title_snapshot, width),
       Snapshot_create_pane_width(r.error_message_snapshot, width),
       Snapshot_create_pane_width(r.text_editor_snapshot, width),
       Snapshot_create_pane_width(r.suggest_snapshot, width) >>

\* The renderers that can be constructed.
JsonRenderers ==
    [preset : {"json"}, title_snapshot : Contents, json_snapshot : Contents]
ReadlineRenderers ==
    [preset : {"readline"}, title_snapshot : Contents,
     error_message_snapshot : Contents, text_editor_snapshot : Contents,
     suggest_snapshot : Contents]

\* Only the renderer's panes take part in the steps of create_panes.
PanesOnly ==
    UNCHANGED <<editorVars, viewerVars, confirmVars, nodeVars, graphemeVars,
                checkboxVars, switcherVars, selectVars>>

\* No height: the readline renderer's create_panes takes a width only.
NoHeight == -1

InitPanes ==
    /\ renderer \in JsonRenderers \cup ReadlineRenderers
    /\ panes = [width |-> 0, height |-> NoHeight, out |-> <<>>]
    /\ NoEditor /\ NoViewer /\ NoConfirm /\ NoNodes /\ NoGraphemes /\ NoWidgets

JsonCreatePanes ==
    /\ renderer.preset = "json"
    /\ \E width \in 1..MaxWidth, height \in 0..MaxHeight :
          /\ panes' = [width |-> width, height |-> height,
                       out |-> json_Renderer_create_panes(renderer, width, height)]
          /\ renderer' = renderer
          /\ PanesOnly

ReadlineCreatePanes ==
    /\ renderer.preset = "readline"
    /\ \E width \in 1..MaxWidth :
          /\ panes' = [width |-> width, height |-> NoHeight,
                       out |-> readline_Renderer_create_panes(renderer, width)]
          /\ renderer' = renderer
          /\ PanesOnly

NextPanes ==
    \/ JsonCreatePanes
    \/ ReadlineCreatePanes

SpecPanes == InitPanes /\ [][NextPanes]_vars

(***************************************************************************)
(* Properties of create_panes.                                             *)
(***************************************************************************)
\* The sum of visible_row_count over the panes ps[1..k].
RECURSIVE RowsOf(_, _)
RowsOf(ps, k) ==
    IF k = 0 THEN 0 ELSE RowsOf(ps, k - 1) + visible_row_count(ps[k])

\* The contents of the renderer's snapshots, in stack order.
StackOf(r) ==
    IF r.preset = "json"
    THEN <<r.title_snapshot, r.json_snapshot>>
    ELSE <<r.title_snapshot, r.error_message_snapshot,
           r.text_editor_snapshot, r.suggest_snapshot>>

\* C14 as stated: create_panes(width, height) builds the panes in stack
\* order, the k-th with the height left by the panes before it, so that the
\* rows of all panes together never exceed height.
C14_ResidualHeight_Stated ==
    panes.height # NoHeight =>
        /\ \A k \in 1..Len(panes.out) :
               panes.out[k] =
                   Snapshot_create_pane(StackOf(renderer)[k], panes.width,
                       saturating_sub(panes.height, RowsOf(panes.out, k - 1)))
        /\ RowsOf(panes.out, Len(panes.out)) <= panes.height

\* C14 as amended: create_panes builds one pane per snapshot in stack
\* order and gives every widget the same geometry: the JSON renderer creates
\* each pane with the full height (the readline renderer passes the width
\* only), so each JSON pane has at most height rows and the rows of all
\* panes together are bounded by the number of panes times height.
C14_FullHeightEach ==
    /\ panes.out # <<>> => Len(panes.out) = Len(StackOf(renderer))
    /\ panes.height # NoHeight =>
           /\ \A k \in 1..Len(panes.out) :
                  /\ panes.out[k] =
                         Snapshot_create_pane(StackOf(renderer)[k],
                                              panes.width, panes.height)
                  /\ visible_row_count(panes.out[k]) <= panes.height
           /\ RowsOf(panes.out, Len(panes.out))
                  <= Len(panes.out) * panes.height
    /\ (panes.out # <<>> /\ panes.height = NoHeight) =>
           \A k \in 1..Len(panes.out) :
               panes.out[k] =
                   Snapshot_create_pane_width(StackOf(renderer)[k], panes.width)

\* The JSON renderer made two panes that both fill the height, so that the
\* second did not get the height the first left.
C14_Witness ==
    /\ renderer.preset = "json"
    /\ panes.height > 0
    /\ Len(panes.out) = 2
    /\ visible_row_count(panes.out[1]) = panes.height
    /\ visible_row_count(panes.out[2]) = panes.height

(***************************************************************************)
(* The Confirm prompt (src/preset/confirm.rs): a text editor and an error  *)
(* message, each in a snapshot, and the evaluator run on every event.      *)
(***************************************************************************)
\* The answer typed has at most MaxAnswer characters.
MaxAnswer == 3

\* The characters typed: y e s n o Y N.
AnswerChars == {121, 101, 115, 110, 111, 89, 78}

\* The texts the validator accepts: "yes", "no", "y", "n", "Y", "N".
AcceptedAnswers ==
    { <<121, 101, 115>>, <<110, 111>>, <<121>>, <<110>>, <<89>>, <<78>> }

\* The message of the validator.
ConfirmErrorMessage == "Please type 'y' or 'n' as an answer"

\* A key event of the terminal.
KeyEvent(code, ch, modifiers, kind) ==
    [code |-> code, ch |-> ch, modifiers |-> modifiers, kind |-> kind,
     state |-> "NONE"]

\* The events delivered: keys of the editor pressed, and an Enter that is not
\* a plain press.
ConfirmEvents ==
    {KeyEvent("Char", c, "NONE", "Press") : c \in AnswerChars}
    \cup {KeyEvent(code, 0, "NONE", "Press") :
              code \in {"Enter", "Backspace", "Left"}}
    \cup {KeyEvent("Enter", 0, "SHIFT", "Press")}

\* The pattern the evaluator matches Enter with.
IsEnterPress(event) == event = KeyEvent("Enter", 0, "NONE", "Press")

\* TextBuffer::default(): the buffer holding the cursor's space only.
TextBuffer_default == TextEditor_default

\* TextBuffer::content_without_cursor(), as a String.
content_without_cursor(textbuffer) == chars(text_without_cursor(textbuffer))

\* TextEditorBuilder::build_state / TextBuilder::build_state: the widgets of
\* a Confirm just built.
TextEditor_widget == [textbuffer |-> TextBuffer_default]
Text_widget == [text |-> ""]

\* Viewable::handle_event of the text editor: its key bindings.
TextEditor_handle_event(w, event) ==
    IF event.modifiers # "NONE" \/ event.kind # "Press" THEN w
    ELSE CASE event.code = "Char" ->
                  IF Len(w.textbuffer.contents) <= MaxAnswer
                  THEN [w EXCEPT !.textbuffer = insert(@, event.ch)]
                  ELSE w
           [] event.code = "Backspace" -> [w EXCEPT !.textbuffer = erase(@)]
           [] event.code = "Left" -> [w EXCEPT !.textbuffer = backward(@)]
           [] event.code = "Right" -> [w EXCEPT !.textbuffer = forward(@)]
           [] OTHER -> w

\* Viewable::handle_event of the text: it handles no event.
Text_handle_event(w, event) == w

\* State::handle_event, given the widget `handled` that Viewable::handle_event
\* makes of `after`.
State_handled(st, handled) ==
    LET cloned == [st EXCEPT !.before = st.after]
    IN  [cloned EXCEPT !.after = handled]

\* Validator::validate and Validator::error_message of Confirm::prompt.
Confirm_validate(str) == str \in AcceptedAnswers
Confirm_error_message(str) == ConfirmErrorMessage

\* The evaluator that, on a validation failure, leaves the text buffer as
\* typed.
Confirm_evaluator_NoReset(viewables, event) ==
    LET str == content_without_cursor(viewables.text_state.after.textbuffer)
        ret == IF IsEnterPress(event) THEN Confirm_validate(str) ELSE TRUE
        failed ==
            IF IsEnterPress(event) /\ ~ ret
            THEN [viewables EXCEPT
                    !.error_message_state.after.text = Confirm_error_message(str)]
            ELSE viewables
        cleared ==
            IF ret
            THEN [failed EXCEPT
                    !.error_message_state.after = failed.error_message_state.init]
            ELSE failed
    IN  [viewables |-> cleared, ret |-> ret]

\* The evaluator that never puts the error message back to its init state.
Confirm_evaluator_KeepError(viewables, event) ==
    LET str == content_without_cursor(viewables.text_state.after.textbuffer)
        ret == IF IsEnterPress(event) THEN Confirm_validate(str) ELSE TRUE
        failed ==
            IF IsEnterPress(event) /\ ~ ret
            THEN [viewables EXCEPT
                    !.error_message_state.after.text = Confirm_error_message(str),
                    !.text_state.after.textbuffer = TextBuffer_default]
            ELSE viewables
    IN  [viewables |-> failed, ret |-> ret]

\* The evaluator closure of Confirm::prompt: the viewables after it and the
\* value it returns.
Confirm_evaluator(viewables, event) ==
    LET str == content_without_cursor(viewables.text_state.after.textbuffer)
        ret == IF IsEnterPress(event) THEN Confirm_validate(str) ELSE TRUE
        failed ==
            IF IsEnterPress(event) /\ ~ ret
            THEN [viewables EXCEPT
                    !.error_message_state.after.text = Confirm_error_message(str),
                    !.text_state.after.textbuffer = TextBuffer_default]
            ELSE viewables
        cleared ==
            IF ret
            THEN [failed EXCEPT
                    !.error_message_state.after = failed.error_message_state.init]
            ELSE failed
    IN  [viewables |-> cleared, ret |-> ret]

\* The output closure of Confirm::prompt.
Confirm_output(viewables) ==
    content_without_cursor(viewables.text_state.after.textbuffer)

\* Only the prompt takes part in its steps.
ConfirmOnly ==
    UNCHANGED <<editorVars, viewerVars, paneVars, nodeVars, graphemeVars,
                checkboxVars, switcherVars, selectVars>>

\* Prompt::try_new over the two viewables; the prompt is not done.
InitConfirm ==
    /\ confirm = [viewables |->
                      [text_state |-> State_new(TextEditor_widget),
                       error_message_state |-> State_new(Text_widget)],
                  done |-> FALSE, result |-> <<>>]
    /\ confirm_pre = confirm
    /\ confirm_call = [event |-> KeyEvent("None", 0, "NONE", "Press"),
                       str |-> <<>>, ret |-> TRUE]
    /\ NoEditor /\ NoViewer /\ NoPanes /\ NoNodes /\ NoGraphemes /\ NoWidgets

\* One turn of the prompt's loop: every viewable handles the event, the
\* evaluator runs, and a plain Enter it accepts ends the prompt with the
\* output.
ConfirmEvent ==
    /\ ~ confirm.done
    /\ \E event \in ConfirmEvents :
          LET vs == confirm.viewables
              handled ==
                  [text_state |->
                       State_handled(vs.text_state,
                           TextEditor_handle_event(vs.text_state.after, event)),
                   error_message_state |->
                       State_handled(vs.error_message_state,
                           Text_handle_event(vs.error_message_state.after, event))]
              eval == Confirm_evaluator(handled, event)
          IN  /\ confirm' =
                     [viewables |-> eval.viewables,
                      done |-> IsEnterPress(event) /\ eval.ret,
                      result |-> IF IsEnterPress(event) /\ eval.ret
                                 THEN Confirm_output(eval.viewables)
                                 ELSE <<>>]
              /\ confirm_pre' = confirm
              /\ confirm_call' =
                     [event |-> event,
                      str |-> content_without_cursor(
                                  handled.text_state.after.textbuffer),
                      ret |-> eval.ret]
              /\ ConfirmOnly

NextConfirm == ConfirmEvent

SpecConfirm == InitConfirm /\ [][NextConfirm]_vars

(***************************************************************************)
(* Properties of the Confirm prompt.                                       *)
(***************************************************************************)
\* C15: a plain Enter press on a text that is none of yes, no, y, n, Y, N
\* makes the evaluator return false, puts the validator's message into the
\* error message's after state and rolls the editor's after state back to
\* its init state; a plain Enter press on one of the six texts makes it
\* return true and leaves the editor's text as it was.
C15_ConfirmValidation ==
    IsEnterPress(confirm_call.event) =>
        LET vs == confirm.viewables
            old == confirm_pre.viewables
        IN  /\ confirm_call.str =
                   content_without_cursor(old.text_state.after.textbuffer)
            /\ confirm_call.ret = (confirm_call.str \in AcceptedAnswers)
            /\ ~ confirm_call.ret =>
                   /\ vs.error_message_state.after.text =
                          "Please type 'y' or 'n' as an answer"
                   /\ vs.text_state.after = vs.text_state.init
                   /\ content_without_cursor(vs.text_state.after.textbuffer)
                          = <<>>
                   /\ ~ confirm.done
            /\ confirm_call.ret =>
                   /\ vs.text_state.after = old.text_state.after
                   /\ content_without_cursor(vs.text_state.after.textbuffer)
                          = confirm_call.str
                   /\ confirm.done
                   /\ confirm.result = confirm_call.str

\* Enter was pressed on a typed text that is not accepted, and the editor
\* was rolled back.
C15_Witness ==
    /\ IsEnterPress(confirm_call.event)
    /\ ~ confirm_call.ret
    /\ Len(confirm_call.str) >= 2
    /\ confirm.viewables.text_state.before # confirm.viewables.text_state.after
    /\ confirm.viewables.error_message_state.after.text = ConfirmErrorMessage

(***************************************************************************)
(* JSON nodes (src/core/json/node.rs) and generic tree nodes               *)
(* (src/core/tree/node.rs): get, toggle and flatten_visibles.              *)
(***************************************************************************)
\* The paths toggled have at most MaxPath segments.
MaxPath == 2

\* serde_json::Value: objects (entries in document order), arrays and the
\* other values, which are leaves.
ValueObject(map) == [type |-> "Object", map |-> map]
ValueArray(vec) == [type |-> "Array", vec |-> vec]
ValueScalar(v) == [type |-> "Scalar", v |-> v]
Entry(key, value) == [key |-> key, value |-> value]

\* JsonPathSegment::Key(s) and JsonPathSegment::Index(n).
Key(s) == [seg |-> "Key", key |-> s, index |-> 0]
Index(n) == [seg |-> "Index", key |-> "", index |-> n]

\* JsonNode::Object, JsonNode::Array and JsonNode::Leaf.  The children of an
\* object are the (key, node) pairs of its IndexMap, in insertion order.
JsonObject(children, children_visible) ==
    [kind |-> "Object", children |-> children,
     children_visible |-> children_visible]
JsonArray(children, children_visible) ==
    [kind |-> "Array", children |-> children,
     children_visible |-> children_visible]
JsonLeaf(value) == [kind |-> "Leaf", value |-> value]

\* Option::None of get and get_mut.
NoNode == [kind |-> "None"]

\* impl From<serde_json::Value> for JsonNode.
RECURSIVE JsonNode_from(_)
JsonNode_from(value) ==
    CASE value.type = "Object" ->
             JsonObject([i \in 1..Len(value.map) |->
                            [key |-> value.map[i].key,
                             node |-> JsonNode_from(value.map[i].value)]],
                        TRUE)
      [] value.type = "Array" ->
             JsonArray([i \in 1..Len(value.vec) |-> JsonNode_from(value.vec[i])],
                       TRUE)
      [] OTHER -> JsonLeaf(value.v)

\* IndexMap::get(key): the position of the key among the children, 0 if the
\* map has no such key.
IndexOfKey(children, key) ==
    IF \E i \in 1..Len(children) : children[i].key = key
    THEN CHOOSE i \in 1..Len(children) : children[i].key = key
    ELSE 0

\* JsonNode::get(path).
RECURSIVE JsonNode_get(_, _)
JsonNode_get(node, path) ==
    IF path = <<>> THEN node
    ELSE LET seg == Head(path)
         IN  IF seg.seg = "Key"
             THEN IF node.kind = "Object" /\ IndexOfKey(node.children, seg.key) # 0
                  THEN JsonNode_get(
                           node.children[IndexOfKey(node.children, seg.key)].node,
                           Tail(path))
                  ELSE NoNode
             ELSE IF node.kind = "Array" /\ seg.index < Len(node.children)
                  THEN JsonNode_get(node.children[seg.index + 1], Tail(path))
                  ELSE NoNode

\* JsonNode::get_mut(path): the same walk as get; the reference it returns
\* is to the node at `path`.
JsonNode_get_mut(node, path) == JsonNode_get(node, path)

\* An assignment through the reference get_mut(path) returned: the tree with
\* the node at `path`, which exists, replaced.
RECURSIVE JsonNode_assign(_, _, _)
JsonNode_assign(node, path, new) ==
    IF path = <<>> THEN new
    ELSE LET seg == Head(path)
         IN  IF seg.seg = "Key"
             THEN LET i == IndexOfKey(node.children, seg.key)
                  IN  [node EXCEPT !.children[i].node =
                                       JsonNode_assign(@, Tail(path), new)]
             ELSE [node EXCEPT !.children[seg.index + 1] =
                                   JsonNode_assign(@, Tail(path), new)]

\* toggle(path) that can only hide the children.
JsonNode_toggle_HideOnly(node, path) ==
    LET at == JsonNode_get_mut(node, path)
    IN  IF at.kind \in {"Object", "Array"}
        THEN JsonNode_assign(node, path, [at EXCEPT !.children_visible = FALSE])
        ELSE node

\* toggle(path) that falls back to the root when no node is at the path.
JsonNode_toggle_OrRoot(node, path) ==
    LET hit == IF JsonNode_get_mut(node, path) = NoNode THEN <<>> ELSE path
        at == JsonNode_get_mut(node, hit)
    IN  IF at.kind \in {"Object", "Array"}
        THEN JsonNode_assign(node, hit, [at EXCEPT !.children_visible = ~ @])
        ELSE node

\* JsonNode::toggle(path).
JsonNode_toggle(node, path) ==
    LET at == JsonNode_get_mut(node, path)
    IN  IF at.kind \in {"Object", "Array"}
        THEN JsonNode_assign(node, path, [at EXCEPT !.children_visible = ~ @])
        ELSE node

\* The rows of JsonSyntaxKind.  An Option<String> is the sequence of its
\* values: <<>> is None and <<k>> is Some(k).
MapStart(key, path, indent) ==
    [row |-> "MapStart", key |-> key, path |-> path, indent |-> indent]
MapEnd(is_last, indent) ==
    [row |-> "MapEnd", is_last |-> is_last, indent |-> indent]
MapFolded(key, path, is_last, indent) ==
    [row |-> "MapFolded", key |-> key, path |-> path, is_last |-> is_last,
     indent |-> indent]
MapEntry(kv, path, is_last, indent) ==
    [row |-> "MapEntry", kv |-> kv, path |-> path, is_last |-> is_last,
     indent |-> indent]
ArrayStart(key, path, indent) ==
    [row |-> "ArrayStart", key |-> key, path |-> path, indent |-> indent]
ArrayEnd(is_last, indent) ==
    [row |-> "ArrayEnd", is_last |-> is_last, indent |-> indent]
ArrayFolded(key, path, is_last, indent) ==
    [row |-> "ArrayFolded", key |-> key, path |-> path, is_last |-> is_last,
     indent |-> indent]
ArrayEntry(v, path, is_last, indent) ==
    [row |-> "ArrayEntry", v |-> v, path |-> path, is_last |-> is_last,
     indent |-> indent]

\* path.last().and_then(...): the key the path ends with, if it ends with
\* one.
LastKey(path) ==
    IF path # <<>> /\ path[Len(path)].seg = "Key"
    THEN <<path[Len(path)].key>> ELSE <<>>

RECURSIVE dfs(_, _, _, _)
RECURSIVE dfs_keys(_, _, _, _)
RECURSIVE dfs_children(_, _, _, _)

\* The loop over the keys that takes the first child for the last one.
dfs_keys_FirstIsLast(children, i, path, indent) ==
    IF i >= Len(children) THEN <<>>
    ELSE LET branch == Append(path, Key(children[i + 1].key))
             child_is_last == i = 0
         IN  dfs(children[i + 1].node, branch, child_is_last, indent + 1)
                 \o dfs_keys(children, i + 1, path, indent)

\* The loop of dfs over the keys of an object, from the i-th key (0-based)
\* on: the rows of these children.
dfs_keys(children, i, path, indent) ==
    IF i >= Len(children) THEN <<>>
    ELSE LET branch == Append(path, Key(children[i + 1].key))
             child_is_last == i = Len(children) - 1
         IN  dfs(children[i + 1].node, branch, child_is_last, indent + 1)
                 \o dfs_keys(children, i + 1, path, indent)

\* The loop over the children of an array that counts them from one.
dfs_children_OneBased(children, i, path, indent) ==
    IF i >= Len(children) THEN <<>>
    ELSE LET branch == Append(path, Index(i + 1))
             child_is_last == i = Len(children) - 1
         IN  dfs(children[i + 1], branch, child_is_last, indent + 1)
                 \o dfs_children(children, i + 1, path, indent)

\* The loop over the children of an array that does not indent them.
dfs_children_NoIndent(children, i, path, indent) ==
    IF i >= Len(children) THEN <<>>
    ELSE LET branch == Append(path, Index(i))
             child_is_last == i = Len(children) - 1
         IN  dfs(children[i + 1], branch, child_is_last, indent)
                 \o dfs_children(children, i + 1, path, indent)

\* The loop of dfs over the children of an array, from the i-th child
\* (0-based) on.
dfs_children(children, i, path, indent) ==
    IF i >= Len(children) THEN <<>>
    ELSE LET branch == Append(path, Index(i))
             child_is_last == i = Len(children) - 1
         IN  dfs(children[i + 1], branch, child_is_last, indent + 1)
                 \o dfs_children(children, i + 1, path, indent)

\* dfs that takes every leaf below the root for the entry of a map.
dfs_LeafBelowRoot(node, path, is_last, indent) ==
    CASE node.kind = "Object" ->
             IF node.children_visible
             THEN <<MapStart(LastKey(path), path, indent)>>
                      \o dfs_keys(node.children, 0, path, indent)
                      \o <<MapEnd(is_last, indent)>>
             ELSE <<MapFolded(LastKey(path), path, is_last, indent)>>
      [] node.kind = "Array" ->
             IF node.children_visible
             THEN <<ArrayStart(LastKey(path), path, indent)>>
                      \o dfs_children(node.children, 0, path, indent)
                      \o <<ArrayEnd(is_last, indent)>>
             ELSE <<ArrayFolded(LastKey(path), path, is_last, indent)>>
      [] OTHER ->
             IF path # <<>>
             THEN <<MapEntry(<<path[Len(path)].key, node.value>>, path, is_last,
                             indent)>>
             ELSE <<ArrayEntry(node.value, path, is_last, indent)>>

\* dfs that descends into the children of a folded container.
dfs_Unfolding(node, path, is_last, indent) ==
    CASE node.kind = "Object" ->
             IF node.children_visible
             THEN <<MapStart(LastKey(path), path, indent)>>
                      \o dfs_keys(node.children, 0, path, indent)
                      \o <<MapEnd(is_last, indent)>>
             ELSE <<MapFolded(LastKey(path), path, is_last, indent)>>
                      \o dfs_keys(node.children, 0, path, indent)
      [] node.kind = "Array" ->
             IF node.children_visible
             THEN <<ArrayStart(LastKey(path), path, indent)>>
                      \o dfs_children(node.children, 0, path, indent)
                      \o <<ArrayEnd(is_last, indent)>>
             ELSE <<ArrayFolded(LastKey(path), path, is_last, indent)>>
                      \o dfs_children(node.children, 0, path, indent)
      [] OTHER ->
             IF LastKey(path) # <<>>
             THEN <<MapEntry(<<LastKey(path)[1], node.value>>, path, is_last,
                             indent)>>
             ELSE <<ArrayEntry(node.value, path, is_last, indent)>>

\* fn dfs of flatten_visibles: the rows pushed for the node at `path`.
dfs(node, path, is_last, indent) ==
    CASE node.kind = "Object" ->
             IF node.children_visible
             THEN <<MapStart(LastKey(path), path, indent)>>
                      \o dfs_keys(node.children, 0, path, indent)
                      \o <<MapEnd(is_last, indent)>>
             ELSE <<MapFolded(LastKey(path), path, is_last, indent)>>
      [] node.kind = "Array" ->
             IF node.children_visible
             THEN <<ArrayStart(LastKey(path), path, indent)>>
                      \o dfs_children(node.children, 0, path, indent)
                      \o <<ArrayEnd(is_last, indent)>>
             ELSE <<ArrayFolded(LastKey(path), path, is_last, indent)>>
      [] OTHER ->
             IF LastKey(path) # <<>>
             THEN <<MapEntry(<<LastKey(path)[1], node.value>>, path, is_last,
                             indent)>>
             ELSE <<ArrayEntry(node.value, path, is_last, indent)>>

\* JsonNode::flatten_visibles().
JsonNode_flatten_visibles(node) == dfs(node, <<>>, TRUE, 0)

\* Node::NonLeaf and Node::Leaf of the generic tree.
NonLeaf(id, children, children_visible) ==
    [kind |-> "NonLeaf", id |-> id, children |-> children,
     children_visible |-> children_visible]
Leaf(id) == [kind |-> "Leaf", id |-> id]

\* Kind::Folded and Kind::Unfolded.
Folded(id, path) == [row |-> "Folded", id |-> id, path |-> path]
Unfolded(id, path) == [row |-> "Unfolded", id |-> id, path |-> path]

\* Node::get(path).
RECURSIVE Node_get(_, _)
Node_get(node, path) ==
    IF path = <<>> THEN node
    ELSE IF node.kind = "NonLeaf" /\ Head(path) < Len(node.children)
         THEN Node_get(node.children[Head(path) + 1], Tail(path))
         ELSE NoNode

\* Node::get_mut(path): the same walk as get.
Node_get_mut(node, path) == Node_get(node, path)

\* An assignment through the reference get_mut(path) returned.
RECURSIVE Node_assign(_, _, _)
Node_assign(node, path, new) ==
    IF path = <<>> THEN new
    ELSE [node EXCEPT !.children[Head(path) + 1] =
                          Node_assign(@, Tail(path), new)]

\* Node::toggle(path).
Node_toggle(node, path) ==
    LET at == Node_get_mut(node, path)
    IN  IF at.kind = "NonLeaf"
        THEN Node_assign(node, path, [at EXCEPT !.children_visible = ~ @])
        ELSE node

\* The loop of get_waypoints that also pushes the id of the endpoint.
RECURSIVE Waypoints(_, _, _)
Waypoints_WithEndpoint(node, path, ids) ==
    IF path = <<>> THEN Append(ids, node.id)
    ELSE IF node.kind = "NonLeaf"
         THEN IF Head(path) < Len(node.children)
              THEN Waypoints(node.children[Head(path) + 1], Tail(path),
                             Append(ids, node.id))
              ELSE Append(ids, node.id)
         ELSE Append(ids, node.id)

\* The loop of get_waypoints over the indices left of the path, from the
\* node reached and the ids pushed so far.
Waypoints(node, path, ids) ==
    IF path = <<>> THEN ids
    ELSE IF node.kind = "NonLeaf"
         THEN IF Head(path) < Len(node.children)
              THEN Waypoints(node.children[Head(path) + 1], Tail(path),
                             Append(ids, node.id))
              ELSE Append(ids, node.id)
         ELSE Append(ids, node.id)

\* Node::get_waypoints(path).
Node_get_waypoints(node, path) == Waypoints(node, path, <<>>)

\* dfs that pushes the row of a NonLeaf after the rows of its children.
RECURSIVE Node_dfs(_, _)
RECURSIVE Node_dfs_children(_, _, _)
Node_dfs_PostOrder(node, path) ==
    IF node.kind = "NonLeaf"
    THEN IF node.children_visible
         THEN Node_dfs_children(node.children, 0, path)
                  \o <<Unfolded(node.id, path)>>
         ELSE <<Folded(node.id, path)>>
    ELSE <<Folded(node.id, path)>>

\* fn dfs of Node::flatten_visibles, with the loop over the children from
\* the i-th (0-based) on.
Node_dfs_children(children, index, path) ==
    IF index >= Len(children) THEN <<>>
    ELSE Node_dfs(children[index + 1], Append(path, index))
             \o Node_dfs_children(children, index + 1, path)

Node_dfs(node, path) ==
    IF node.kind = "NonLeaf"
    THEN IF node.children_visible
         THEN <<Unfolded(node.id, path)>>
                  \o Node_dfs_children(node.children, 0, path)
         ELSE <<Folded(node.id, path)>>
    ELSE <<Folded(node.id, path)>>

\* Node::flatten_visibles().
Node_flatten_visibles(node) == Node_dfs(node, <<>>)

\* The documents parsed: scenario S4's {"a":{"b":1},"c":[2,3]}, the scalar
\* "string", the empty object, {"a":[[2],{}],"b":3} and [{"a":1},2].
S4Value ==
    ValueObject(<< Entry("a", ValueObject(<<Entry("b", ValueScalar("1"))>>)),
                   Entry("c", ValueArray(<<ValueScalar("2"), ValueScalar("3")>>)) >>)
ScalarValue == ValueScalar("string")
EmptyValue == ValueObject(<<>>)
NestedValue ==
    ValueObject(<< Entry("a", ValueArray(<< ValueArray(<<ValueScalar("2")>>),
                                            ValueObject(<<>>) >>)),
                   Entry("b", ValueScalar("3")) >>)
ArrayValue ==
    ValueArray(<< ValueObject(<<Entry("a", ValueScalar("1"))>>),
                  ValueScalar("2") >>)
Values == {S4Value, ScalarValue, EmptyValue, NestedValue, ArrayValue}

\* The trees built: the node of the tests, root[a[aa, ab], b, c], and a
\* tree with a NonLeaf below a NonLeaf, root[a[x[xx]], b[]].
TestNode ==
    NonLeaf("root",
            << NonLeaf("a", <<Leaf("aa"), Leaf("ab")>>, TRUE),
               Leaf("b"), Leaf("c") >>,
            TRUE)
DeepNode ==
    NonLeaf("root",
            << NonLeaf("a", <<NonLeaf("x", <<Leaf("xx")>>, TRUE)>>, TRUE),
               NonLeaf("b", <<>>, TRUE) >>,
            TRUE)
Nodes == {TestNode, DeepNode}

\* The paths toggled: of existing containers, of leaves and of no node.
JsonSegments == {Key("a"), Key("b"), Key("c"), Index(0), Index(1)}
JsonPaths == StringsUpTo(JsonSegments, MaxPath)
NodePaths == StringsUpTo(0..2, MaxPath)

\* Only the nodes take part in the steps of their operations.
NodesOnly ==
    UNCHANGED <<editorVars, viewerVars, paneVars, confirmVars, graphemeVars,
                checkboxVars, switcherVars, selectVars>>

\* A toggle of the JSON node or of the tree node: its path, whether the call
\* before it was a toggle of the same path, and the rows flatten_visibles
\* returns after it; or a get_waypoints call, its path and the ids returned.
NodeCall(target, path, again, rows) ==
    [target |-> target, path |-> path, again |-> again, rows |-> rows]

\* A JSON node is made from a document, or a tree node is built; node_pre
\* holds the node before the last call and before the call before that.
InitNodes ==
    /\ \/ /\ json \in {JsonNode_from(value) : value \in Values}
          /\ tree = Absent
          /\ node_pre = [last |-> json, second |-> json]
          /\ node_call = NodeCall("from", <<>>, FALSE,
                                  JsonNode_flatten_visibles(json))
       \/ /\ tree \in Nodes
          /\ json = Absent
          /\ node_pre = [last |-> tree, second |-> tree]
          /\ node_call = NodeCall("new", <<>>, FALSE,
                                  Node_flatten_visibles(tree))
    /\ NoEditor /\ NoViewer /\ NoPanes /\ NoConfirm /\ NoGraphemes /\ NoWidgets

JsonToggle ==
    /\ node_call.target \in {"from", "json"}
    /\ \E path \in JsonPaths :
          /\ json' = JsonNode_toggle(json, path)
          /\ tree' = tree
          /\ node_pre' = [last |-> json, second |-> node_pre.last]
          /\ node_call' =
                 NodeCall("json", path,
                          node_call.target = "json" /\ node_call.path = path,
                          JsonNode_flatten_visibles(JsonNode_toggle(json, path)))
          /\ NodesOnly

TreeToggle ==
    /\ node_call.target \in {"new", "tree", "waypoints"}
    /\ \E path \in NodePaths :
          /\ tree' = Node_toggle(tree, path)
          /\ json' = json
          /\ node_pre' = [last |-> tree, second |-> node_pre.last]
          /\ node_call' =
                 NodeCall("tree", path,
                          node_call.target = "tree" /\ node_call.path = path,
                          Node_flatten_visibles(Node_toggle(tree, path)))
          /\ NodesOnly

TreeWaypoints ==
    /\ node_call.target \in {"new", "tree", "waypoints"}
    /\ \E path \in NodePaths :
          /\ tree' = tree
          /\ json' = json
          /\ node_pre' = [last |-> tree, second |-> node_pre.last]
          /\ node_call' =
                 NodeCall("waypoints", path, FALSE,
                          Node_get_waypoints(tree, path))
          /\ NodesOnly

NextNodes ==
    \/ JsonToggle
    \/ TreeToggle
    \/ TreeWaypoints

SpecNodes == InitNodes /\ [][NextNodes]_vars

(***************************************************************************)
(* Properties of toggle and flatten_visibles.                              *)
(***************************************************************************)
\* The paths of the nodes of a JSON node.
RECURSIVE PathsIn(_)
PathsIn(node) ==
    {<<>>} \cup
    (CASE node.kind = "Object" ->
              UNION { { <<Key(node.children[i].key)>> \o q :
                            q \in PathsIn(node.children[i].node) } :
                      i \in 1..Len(node.children) }
       [] node.kind = "Array" ->
              UNION { { <<Index(i - 1)>> \o q : q \in PathsIn(node.children[i]) } :
                      i \in 1..Len(node.children) }
       [] OTHER -> {})

IsContainer(node) == node.kind \in {"Object", "Array"}

\* What a node is apart from its flag and its descendants: its kind, the
\* keys or the number of its children, and its value.
ShapeOf(node) ==
    [kind |-> node.kind,
     keys |-> IF node.kind = "Object"
              THEN [i \in 1..Len(node.children) |-> node.children[i].key]
              ELSE <<>>,
     size |-> IF IsContainer(node) THEN Len(node.children) ELSE 0,
     value |-> IF node.kind = "Leaf" THEN node.value ELSE ""]

\* C16: toggle(path) flips the flag of the node at path if it is an Object
\* or an Array, and changes no child, key, value or flag of another node;
\* if path addresses a leaf or no node, the whole tree is unchanged.
C16_ToggleFrame ==
    node_call.target = "json" =>
        LET old == node_pre.last
            at == JsonNode_get(old, node_call.path)
        IN  /\ PathsIn(json) = PathsIn(old)
            /\ \A q \in PathsIn(old) :
                   LET was == JsonNode_get(old, q)
                       is == JsonNode_get(json, q)
                   IN  /\ ShapeOf(is) = ShapeOf(was)
                       /\ IsContainer(was) =>
                              (is.children_visible = was.children_visible)
                                  <=> (q # node_call.path)
            /\ ~ IsContainer(at) => json = old

\* A container below the root was toggled while another container was
\* folded.
C16_Witness ==
    /\ node_call.target = "json"
    /\ node_call.path # <<>>
    /\ IsContainer(JsonNode_get(node_pre.last, node_call.path))
    /\ \E q \in PathsIn(json) :
           /\ q # node_call.path
           /\ IsContainer(JsonNode_get(json, q))
           /\ ~ JsonNode_get(json, q).children_visible

\* C17: for JSON nodes and tree nodes and every path (of a container, of a
\* leaf, of no node), two toggle calls with the path leave the tree and the
\* output of flatten_visibles as they were before the two calls.
C17_ToggleTwice ==
    /\ node_call.target \in {"from", "json"} =>
           /\ node_call.again =>
                  /\ json = node_pre.second
                  /\ node_call.rows = JsonNode_flatten_visibles(node_pre.second)
           /\ \A p \in JsonPaths :
                  LET twice == JsonNode_toggle(JsonNode_toggle(json, p), p)
                  IN  /\ twice = json
                      /\ JsonNode_flatten_visibles(twice) = node_call.rows
    /\ node_call.target \in {"new", "tree"} =>
           /\ node_call.again =>
                  /\ tree = node_pre.second
                  /\ node_call.rows = Node_flatten_visibles(node_pre.second)
           /\ \A p \in NodePaths :
                  LET twice == Node_toggle(Node_toggle(tree, p), p)
                  IN  /\ twice = tree
                      /\ Node_flatten_visibles(twice) = node_call.rows

\* A container of a JSON node that was folded before was toggled twice in a
\* row: the first call unfolded it and the second folded it again.
C17_Witness ==
    /\ node_call.target = "json"
    /\ node_call.again
    /\ node_pre.last # json
    /\ IsContainer(JsonNode_get(json, node_call.path))
    /\ ~ JsonNode_get(json, node_call.path).children_visible
    /\ node_call.rows # JsonNode_flatten_visibles(node_pre.last)

\* The rows that open, close and carry the path of a node.
IsStart(r) == r.row \in {"MapStart", "ArrayStart"}
IsEnd(r) == r.row \in {"MapEnd", "ArrayEnd"}
HasPath(r) == ~ IsEnd(r)
Closes(e, b) ==
    \/ e.row = "MapEnd" /\ b.row = "MapStart"
    \/ e.row = "ArrayEnd" /\ b.row = "ArrayStart"

\* rows[i..] is properly nested under the open Start rows of `open`: every
\* End row closes the innermost open Start row, of its kind and with its
\* indent, every row is indented by the number of open Start rows, and no
\* Start row stays open.
RECURSIVE ProperlyNested(_, _, _)
ProperlyNested(rows, i, open) ==
    IF i > Len(rows) THEN open = <<>>
    ELSE LET r == rows[i]
         IN  IF IsEnd(r)
             THEN /\ open # <<>>
                  /\ Closes(r, open[Len(open)])
                  /\ r.indent = open[Len(open)].indent
                  /\ ProperlyNested(rows, i + 1, VecPopBack(open))
             ELSE /\ r.indent = Len(open)
                  /\ ProperlyNested(rows, i + 1,
                                    IF IsStart(r) THEN Append(open, r) ELSE open)

\* The node at path p is reached by flatten_visibles: all the containers
\* above it show their children.
Reached(node, p) ==
    \A k \in 0..(Len(p) - 1) :
        JsonNode_get(node, SubSeq(p, 1, k)).children_visible

\* The paths of the children of the container at path p, in stored order.
ChildPaths(node, p) ==
    LET at == JsonNode_get(node, p)
    IN  [i \in 1..Len(at.children) |->
            Append(p, IF at.kind = "Object"
                      THEN Key(at.children[i].key) ELSE Index(i - 1))]

IsPrefix(p, q) == Len(p) <= Len(q) /\ SubSeq(q, 1, Len(p)) = p

\* The paths of the rows of indent `depth` among rows[i..j], in order.
RECURSIVE PathsAt(_, _, _, _)
PathsAt(rows, i, j, depth) ==
    IF i > j THEN <<>>
    ELSE (IF HasPath(rows[i]) /\ rows[i].indent = depth
          THEN <<rows[i].path>> ELSE <<>>)
             \o PathsAt(rows, i + 1, j, depth)

\* The output of scenario S4: {"a":{"b":1},"c":[2,3]} after toggle(["a"]).
S4Toggled == JsonNode_toggle(JsonNode_from(S4Value), <<Key("a")>>)
S4Rows ==
    << MapStart(<<>>, <<>>, 0),
       MapFolded(<<"a">>, <<Key("a")>>, FALSE, 1),
       ArrayStart(<<"c">>, <<Key("c")>>, 1),
       ArrayEntry("2", <<Key("c"), Index(0)>>, FALSE, 2),
       ArrayEntry("3", <<Key("c"), Index(1)>>, TRUE, 2),
       ArrayEnd(TRUE, 1),
       MapEnd(TRUE, 0) >>

\* C18: flatten_visibles emits, for every container that shows its children
\* and is reached through such containers, a Start row, the rows of its
\* children in stored order and one matching End row; Start and End rows
\* are properly nested, an End row has the indent of its Start row, the
\* indent of a row is its depth (the length of its path), the outermost row
\* has indent 0; and scenario S4 yields exactly its seven rows.
C18_FlattenNesting ==
    node_call.target \in {"from", "json"} =>
        LET rows == node_call.rows
        IN  /\ rows = JsonNode_flatten_visibles(json)
            /\ rows # <<>> /\ rows[1].indent = 0
            /\ ProperlyNested(rows, 1, <<>>)
            /\ \A i \in 1..Len(rows) :
                   HasPath(rows[i]) => rows[i].indent = Len(rows[i].path)
            /\ \A p \in PathsIn(json) :
                   LET at == JsonNode_get(json, p)
                   IN  (Reached(json, p) /\ IsContainer(at)
                            /\ at.children_visible) =>
                       \E i, j \in 1..Len(rows) :
                           /\ i < j
                           /\ IsStart(rows[i]) /\ rows[i].path = p
                           /\ (rows[i].row = "MapStart") <=> (at.kind = "Object")
                           /\ Closes(rows[j], rows[i])
                           /\ rows[j].indent = rows[i].indent
                           /\ \A k \in (i + 1)..(j - 1) :
                                  /\ rows[k].indent > rows[i].indent
                                  /\ HasPath(rows[k]) =>
                                         /\ IsPrefix(p, rows[k].path)
                                         /\ rows[k].path # p
                           /\ PathsAt(rows, i + 1, j - 1, Len(p) + 1)
                                  = ChildPaths(json, p)
            /\ json = S4Toggled => rows = S4Rows

\* Scenario S4 happened: ["a"] of the S4 document was toggled and
\* flatten_visibles returned the rows of the scenario.
C18_Witness ==
    /\ node_call.target = "json"
    /\ node_pre.last = JsonNode_from(S4Value)
    /\ node_call.path = <<Key("a")>>
    /\ json = S4Toggled
    /\ Len(node_call.rows) = 7

IsFolded(r) == r.row \in {"MapFolded", "ArrayFolded"}

\* The rows with path p, and the rows whose path strictly extends p.
RowsAt(rows, p) == {i \in 1..Len(rows) : HasPath(rows[i]) /\ rows[i].path = p}
RowsBelow(rows, p) ==
    {i \in 1..Len(rows) :
         HasPath(rows[i]) /\ IsPrefix(p, rows[i].path) /\ rows[i].path # p}

\* C19 as stated: after any toggles, every folded container at a path p has
\* exactly one Folded row with path p in the output and no row whose path
\* strictly extends p, whatever the flags of its descendants; folding the
\* root yields a single row.
C19_FoldedRow_Stated ==
    node_call.target \in {"from", "json"} =>
        LET rows == node_call.rows
        IN  \A p \in PathsIn(json) :
                LET at == JsonNode_get(json, p)
                IN  (IsContainer(at) /\ ~ at.children_visible) =>
                        /\ Cardinality(RowsAt(rows, p)) = 1
                        /\ \A i \in RowsAt(rows, p) : IsFolded(rows[i])
                        /\ RowsBelow(rows, p) = {}
                        /\ p = <<>> => Len(rows) = 1

\* C19 as amended: after any toggles, a folded container at a path p whose
\* ancestors all show their children has exactly one Folded row with path
\* p, of its kind, in the output, and no row whose path strictly extends p,
\* whatever the flags of its descendants; a folded container below a folded
\* ancestor has no row at all; folding the root yields a single row.
C19_FoldedRow ==
    node_call.target \in {"from", "json"} =>
        LET rows == node_call.rows
        IN  \A p \in PathsIn(json) :
                LET at == JsonNode_get(json, p)
                IN  (IsContainer(at) /\ ~ at.children_visible) =>
                        /\ RowsBelow(rows, p) = {}
                        /\ Reached(json, p) =>
                               /\ Cardinality(RowsAt(rows, p)) = 1
                               /\ \A i \in RowsAt(rows, p) :
                                      /\ (rows[i].row = "MapFolded")
                                             <=> (at.kind = "Object")
                                      /\ (rows[i].row = "ArrayFolded")
                                             <=> (at.kind = "Array")
                        /\ ~ Reached(json, p) => RowsAt(rows, p) = {}
                        /\ p = <<>> => Len(rows) = 1

\* A toggle folded a container below the root that holds a folded container
\* and a container showing its children.
C19_Witness ==
    /\ node_call.target = "json"
    /\ node_call.path # <<>>
    /\ node_call.path \in PathsIn(json)
    /\ IsContainer(JsonNode_get(json, node_call.path))
    /\ Reached(json, node_call.path)
    /\ ~ JsonNode_get(json, node_call.path).children_visible
    /\ JsonNode_get(node_pre.last, node_call.path).children_visible
    /\ \E q, r \in PathsIn(json) :
           /\ IsPrefix(node_call.path, q) /\ q # node_call.path
           /\ IsPrefix(node_call.path, r) /\ r # node_call.path
           /\ IsContainer(JsonNode_get(json, q))
           /\ IsContainer(JsonNode_get(json, r))
           /\ ~ JsonNode_get(json, q).children_visible
           /\ JsonNode_get(json, r).children_visible
    /\ Cardinality(RowsAt(node_call.rows, node_call.path)) = 1

\* The node at path p is the final child of its parent; the root counts as
\* one.
IsFinalChild(node, p) ==
    \/ p = <<>>
    \/ LET siblings == ChildPaths(node, VecPopBack(p))
       IN  siblings[Len(siblings)] = p

\* Two paths of siblings: the same parent and different final segments.
Sibling(p, q) ==
    /\ Len(p) = Len(q) /\ Len(p) > 0
    /\ VecPopBack(p) = VecPopBack(q)
    /\ p # q

\* Every End row of rows[i..] carries the flag of the container whose Start
\* row it closes; `open` holds the Start rows still open.
RECURSIVE EndFlags(_, _, _, _)
EndFlags(node, rows, i, open) ==
    IF i > Len(rows) THEN TRUE
    ELSE LET r == rows[i]
         IN  IF IsEnd(r)
             THEN /\ open # <<>>
                  /\ r.is_last = IsFinalChild(node, open[Len(open)].path)
                  /\ EndFlags(node, rows, i + 1, VecPopBack(open))
             ELSE EndFlags(node, rows, i + 1,
                           IF IsStart(r) THEN Append(open, r) ELSE open)

\* C20: in the output of flatten_visibles the is_last flag of a row is true
\* exactly when its node is the final child of its parent (the root counts
\* as last, an End row carries the flag of its container), and no row with
\* is_last and path p is followed by a row whose path is a sibling of p.
C20_IsLast ==
    node_call.target \in {"from", "json"} =>
        LET rows == node_call.rows
        IN  /\ \A i \in 1..Len(rows) :
                   (HasPath(rows[i]) /\ ~ IsStart(rows[i])) =>
                       /\ rows[i].is_last = IsFinalChild(json, rows[i].path)
                       /\ rows[i].is_last =>
                              \A j \in (i + 1)..Len(rows) :
                                  HasPath(rows[j]) =>
                                      ~ Sibling(rows[i].path, rows[j].path)
            /\ EndFlags(json, rows, 1, <<>>)

\* After a toggle the output holds a row below the root that is the last of
\* its siblings and is followed by a row with a path, a row that is not the
\* last of its siblings, and an End row of a container that is not the last.
C20_Witness ==
    /\ node_call.target = "json"
    /\ \E i, j, k, e \in 1..Len(node_call.rows) :
           /\ i < j
           /\ HasPath(node_call.rows[i]) /\ ~ IsStart(node_call.rows[i])
           /\ node_call.rows[i].is_last
           /\ node_call.rows[i].path # <<>>
           /\ HasPath(node_call.rows[j])
           /\ HasPath(node_call.rows[k]) /\ ~ IsStart(node_call.rows[k])
           /\ ~ node_call.rows[k].is_last
           /\ IsEnd(node_call.rows[e])
           /\ ~ node_call.rows[e].is_last

\* The index of the End row that closes the Start row rows[i]: the first End
\* row after it with its indent.
MatchingEnd(rows, i) ==
    CHOOSE j \in (i + 1)..Len(rows) :
        /\ IsEnd(rows[j]) /\ rows[j].indent = rows[i].indent
        /\ \A k \in (i + 1)..(j - 1) :
               ~ (IsEnd(rows[k]) /\ rows[k].indent = rows[i].indent)

\* The row r describes the node: its kind, its flag, its key and its value.
Describes(r, node) ==
    CASE r.row = "MapStart" ->
             node.kind = "Object" /\ node.children_visible
      [] r.row = "MapFolded" ->
             node.kind = "Object" /\ ~ node.children_visible
      [] r.row = "ArrayStart" ->
             node.kind = "Array" /\ node.children_visible
      [] r.row = "ArrayFolded" ->
             node.kind = "Array" /\ ~ node.children_visible
      [] r.row = "MapEntry" ->
             node.kind = "Leaf" /\ r.kv = <<r.path[Len(r.path)].key, node.value>>
      [] r.row = "ArrayEntry" ->
             node.kind = "Leaf" /\ r.v = node.value
      [] OTHER -> FALSE

\* C21: in the output of flatten_visibles, the rows with a path between a
\* Start row with path p and its End row have p as a strict prefix of their
\* path and the rows outside do not; the paths of the rows are pairwise
\* distinct; get(path) of every row is the node the row describes.
C21_PathOrder ==
    node_call.target \in {"from", "json"} =>
        LET rows == node_call.rows
            below(p, q) == IsPrefix(p, q) /\ p # q
        IN  /\ \A i \in 1..Len(rows) :
                   IsStart(rows[i]) =>
                       LET j == MatchingEnd(rows, i)
                       IN  \A k \in 1..Len(rows) :
                               HasPath(rows[k]) =>
                                   (below(rows[i].path, rows[k].path)
                                        <=> (i < k /\ k < j))
            /\ \A i, k \in 1..Len(rows) :
                   (HasPath(rows[i]) /\ HasPath(rows[k]) /\ i # k) =>
                       rows[i].path # rows[k].path
            /\ \A i \in 1..Len(rows) :
                   HasPath(rows[i]) =>
                       /\ JsonNode_get(json, rows[i].path) # NoNode
                       /\ Describes(rows[i], JsonNode_get(json, rows[i].path))
                       /\ ~ IsStart(rows[i]) \/ rows[i].key = LastKey(rows[i].path)

\* After a toggle the output holds a Start row below the root with rows
\* inside its span and a row with a path after its End row.
C21_Witness ==
    /\ node_call.target = "json"
    /\ \E i, k, m \in 1..Len(node_call.rows) :
           /\ IsStart(node_call.rows[i])
           /\ node_call.rows[i].path # <<>>
           /\ i < k /\ k < MatchingEnd(node_call.rows, i)
           /\ HasPath(node_call.rows[k])
           /\ m > MatchingEnd(node_call.rows, i)
           /\ HasPath(node_call.rows[m])

\* The row of a scalar document "string".
ScalarRows == <<ArrayEntry("string", <<>>, TRUE, 0)>>

\* C22: flatten_visibles emits a leaf as MapEntry, with its key, if and
\* only if its parent is an Object, and as ArrayEntry otherwise; a scalar
\* document yields the single row ArrayEntry with the empty path, is_last
\* and indent 0, and toggle changes nothing of it.
C22_LeafEntries ==
    node_call.target \in {"from", "json"} =>
        LET rows == node_call.rows
        IN  /\ \A i \in 1..Len(rows) :
                   rows[i].row \in {"MapEntry", "ArrayEntry"} =>
                       LET p == rows[i].path
                           parentIsObject ==
                               /\ p # <<>>
                               /\ JsonNode_get(json, VecPopBack(p)).kind = "Object"
                       IN  /\ JsonNode_get(json, p).kind = "Leaf"
                           /\ (rows[i].row = "MapEntry") <=> parentIsObject
                           /\ rows[i].row = "MapEntry" =>
                                  rows[i].kv = <<p[Len(p)].key,
                                                 JsonNode_get(json, p).value>>
                           /\ rows[i].row = "ArrayEntry" =>
                                  rows[i].v = JsonNode_get(json, p).value
            /\ \A p \in PathsIn(json) :
                   (JsonNode_get(json, p).kind = "Leaf" /\ Reached(json, p)) =>
                       \E i \in 1..Len(rows) :
                           /\ rows[i].row \in {"MapEntry", "ArrayEntry"}
                           /\ rows[i].path = p
            /\ node_pre.last = JsonNode_from(ScalarValue) =>
                   /\ json = node_pre.last
                   /\ rows = ScalarRows

\* After a toggle the output holds the entry of a map and the entry of an
\* array below the root.
C22_Witness ==
    /\ node_call.target = "json"
    /\ \E i, k \in 1..Len(node_call.rows) :
           /\ node_call.rows[i].row = "MapEntry"
           /\ node_call.rows[k].row = "ArrayEntry"
           /\ node_call.rows[k].path # <<>>

\* The paths of the nodes of a tree node.
RECURSIVE NodePathsIn(_)
NodePathsIn(node) ==
    {<<>>} \cup
    (IF node.kind = "NonLeaf"
     THEN UNION { { <<i - 1>> \o q : q \in NodePathsIn(node.children[i]) } :
                  i \in 1..Len(node.children) }
     ELSE {})

\* The node at path p of a tree is reached by flatten_visibles: the NonLeaf
\* nodes above it show their children.
NodeReached(node, p) ==
    \A k \in 0..(Len(p) - 1) : Node_get(node, SubSeq(p, 1, k)).children_visible

\* p comes before q in depth-first pre-order: p is a strict prefix of q, or
\* at the first index where they differ p has the smaller child index.
PreOrderBefore(p, q) ==
    \/ IsPrefix(p, q) /\ p # q
    \/ \E k \in 1..Len(p) :
           /\ k <= Len(q)
           /\ SubSeq(p, 1, k - 1) = SubSeq(q, 1, k - 1)
           /\ p[k] < q[k]

\* C23: Node::flatten_visibles emits the rows in depth-first pre-order: a
\* NonLeaf showing its children yields an Unfolded row followed by the rows
\* of its children in index order, a hidden NonLeaf a single Folded row and
\* no rows of descendants, a Leaf a Folded row; the path of a row is the
\* vector of child indices from the root and get(path) is the node with the
\* id of the row.
C23_TreePreOrder ==
    node_call.target \in {"new", "tree"} =>
        LET rows == node_call.rows
        IN  /\ rows = Node_flatten_visibles(tree)
            /\ {rows[i].path : i \in 1..Len(rows)} =
                   {p \in NodePathsIn(tree) : NodeReached(tree, p)}
            /\ \A i, k \in 1..Len(rows) :
                   i < k => PreOrderBefore(rows[i].path, rows[k].path)
            /\ \A i \in 1..Len(rows) :
                   LET at == Node_get(tree, rows[i].path)
                   IN  /\ at # NoNode
                       /\ at.id = rows[i].id
                       /\ (rows[i].row = "Unfolded") <=>
                              (at.kind = "NonLeaf" /\ at.children_visible)
                       /\ rows[i].row \in {"Unfolded", "Folded"}

\* After a toggle the rows hold an Unfolded NonLeaf below the root with its
\* children, a hidden NonLeaf with children, and a Leaf after them.
C23_Witness ==
    /\ node_call.target = "tree"
    /\ \E i, k \in 1..Len(node_call.rows) :
           /\ node_call.rows[i].row = "Unfolded"
           /\ Len(node_call.rows[i].path) = 1
           /\ node_call.rows[k].row = "Folded"
           /\ Node_get(tree, node_call.rows[k].path).kind = "NonLeaf"
           /\ Node_get(tree, node_call.rows[k].path).children # <<>>
    /\ \E p \in NodePathsIn(tree) : ~ NodeReached(tree, p)

\* C24: for a path of an existing node of a tree, get_waypoints(path)
\* returns, root first, the ids of the nodes at the proper prefixes of the
\* path: as many ids as the path has segments, none for the empty path.
C24_Waypoints ==
    (node_call.target = "waypoints" /\ node_call.path \in NodePathsIn(tree)) =>
        LET ids == node_call.rows
            path == node_call.path
        IN  /\ Len(ids) = Len(path)
            /\ \A k \in 1..Len(path) :
                   ids[k] = Node_get(tree, SubSeq(path, 1, k - 1)).id
            /\ path = <<>> => ids = <<>>

\* get_waypoints was called with the path of a node two levels below the
\* root, after a toggle.
C24_Witness ==
    /\ node_call.target = "waypoints"
    /\ node_call.path \in NodePathsIn(tree)
    /\ Len(node_call.path) = 2
    /\ Len(node_call.rows) = 2
    /\ node_pre.second # tree


(***************************************************************************)
(* Searching, replacing and highlighting in StyledGraphemes                *)
(* (promkit/src/grapheme.rs).  Positions are 0-based as in the source.     *)
(***************************************************************************)
\* The longest sequence searched, the longest query and the longest
\* replacement string.
MaxSeq == 5
MaxQuery == 3
MaxTo == 2

\* The inner loop of find_all: the query's chars from the i-th on equal the
\* chars of the graphemes from pos + i on.
RECURSIVE match_found(_, _, _, _)
match_found(g, query_chars, pos, i) ==
    IF i >= Len(query_chars) THEN TRUE
    ELSE IF g[pos + i + 1].ch # query_chars[i + 1] THEN FALSE
    ELSE match_found(g, query_chars, pos, i + 1)

RECURSIVE find_all_while(_, _, _, _)
RECURSIVE find_all_while_SkipMatch(_, _, _, _)

\* The loop of find_all, leaping over a match found.
find_all_while_SkipMatch(g, query_chars, pos, indices) ==
    IF pos + Len(query_chars) <= Len(g)
    THEN IF match_found(g, query_chars, pos, 0)
         THEN find_all_while_SkipMatch(g, query_chars,
                  pos + Len(query_chars), Append(indices, pos))
         ELSE find_all_while_SkipMatch(g, query_chars, pos + 1, indices)
    ELSE indices

\* The while loop of find_all: every position at which the whole query
\* still fits is compared, and the position moves on by one either way.
find_all_while(g, query_chars, pos, indices) ==
    IF pos + Len(query_chars) <= Len(g)
    THEN IF match_found(g, query_chars, pos, 0)
         THEN find_all_while(g, query_chars, pos + 1, Append(indices, pos))
         ELSE find_all_while(g, query_chars, pos + 1, indices)
    ELSE indices

\* StyledGraphemes::find_all(query).
find_all(g, query) ==
    IF query = <<>> THEN <<>> ELSE find_all_while(g, query, 0, <<>>)

\* usize::abs_diff.
abs_diff(a, b) == IF a >= b THEN a - b ELSE b - a

RECURSIVE replace_for(_, _, _, _, _)
RECURSIVE replace_for_NoOffset(_, _, _, _, _)

\* The loop of replace, each position used as found.
replace_for_NoOffset(g, pos, from_len, to, offset) ==
    IF pos = <<>> THEN g
    ELSE replace_for_NoOffset(
             replace_range(g, Head(pos), Head(pos) + from_len, to),
             Tail(pos), from_len, to, offset)

\* The loop of replace over the positions found before the first
\* replacement: each is shifted by the lengths gained or lost so far.
replace_for(g, pos, from_len, to, offset) ==
    IF pos = <<>> THEN g
    ELSE LET p == Head(pos)
             adjusted_pos == IF Len(to) > from_len
                             THEN p + offset
                             ELSE saturating_sub(p, offset)
         IN  replace_for(
                 replace_range(g, adjusted_pos, adjusted_pos + from_len, to),
                 Tail(pos), from_len, to,
                 offset + abs_diff(from_len, Len(to)))

\* StyledGraphemes::replace(from, to).
StyledGraphemes_replace(g, from, to) ==
    replace_for(g, find_all(g, from), Len(from), to, 0)

\* StyledGrapheme::apply_style on the grapheme at index i, if there is one
\* (get_mut).
apply_style_get_mut(g, i, style) ==
    IF i < Len(g) THEN [g EXCEPT ![i + 1].style = style] ELSE g

\* The inner loop of highlight: the graphemes at i .. end - 1 get the style.
RECURSIVE highlight_range(_, _, _, _)
highlight_range(g, i, end, style) ==
    IF i >= end THEN g
    ELSE highlight_range(apply_style_get_mut(g, i, style), i + 1, end, style)

RECURSIVE highlight_for(_, _, _, _)
RECURSIVE highlight_for_FirstOnly(_, _, _, _)

\* The outer loop of highlight, stopping after the first match.
highlight_for_FirstOnly(g, indices, query_len, style) ==
    IF indices = <<>> THEN g
    ELSE highlight_range(g, Head(indices), Head(indices) + query_len, style)

\* The outer loop of highlight over the start indices found.
highlight_for(g, indices, query_len, style) ==
    IF indices = <<>> THEN g
    ELSE highlight_for(
             highlight_range(g, Head(indices), Head(indices) + query_len,
                             style),
             Tail(indices), query_len, style)

\* StyledGraphemes::highlight(query, style): an Option, here the sequence
\* of no value (None) or of one (Some).
highlight(g, query, style) ==
    IF query = <<>> THEN <<g>>
    ELSE LET indices == find_all(g, query)
         IN  IF indices = <<>> THEN <<>>
             ELSE <<highlight_for(g, indices, Len(query), style)>>

\* The sequences searched are made of 'a' and 'b', styled or not; the
\* queries are strings over the same chars, the replacements strings over
\* 'a' and 'c'.
SearchChars == {97, 98}
HighlightStyle == "highlight"
SearchGraphemes ==
    {StyledGrapheme_new(ch, style) :
        ch \in SearchChars, style \in {DefaultStyle, HighlightStyle}}
SearchSeqs == StringsUpTo(SearchGraphemes, MaxSeq)
Queries == StringsUpTo(SearchChars, MaxQuery)
Replacements == StringsUpTo({97, 99}, MaxTo)
NewStyles == {HighlightStyle, "underlined"}

\* Only the grapheme sequence takes part in the steps of its operations.
GraphemesOnly ==
    UNCHANGED <<editorVars, viewerVars, paneVars, confirmVars, nodeVars,
                checkboxVars, switcherVars, selectVars>>

\* The record of a call: the operation, its arguments, what it returned.
GCall(op, query, to, style, width, height, offset, out) ==
    [op |-> op, query |-> query, to |-> to, style |-> style,
     width |-> width, height |-> height, offset |-> offset, out |-> out]

\* A sequence is given; nothing was called on it yet.  Each operation is
\* applied to the sequence as given.
InitSearch ==
    /\ graphemes \in SearchSeqs
    /\ g_call = GCall("from", <<>>, <<>>, DefaultStyle, 0, 0, 0, <<>>)
    /\ NoEditor /\ NoViewer /\ NoPanes /\ NoConfirm /\ NoNodes /\ NoWidgets

\* find_all(query) borrows the sequence and returns the positions.
FindAll ==
    \E query \in Queries :
        /\ g_call.op = "from"
        /\ g_call' = GCall("find_all", query, <<>>, DefaultStyle, 0, 0, 0,
                           find_all(graphemes, query))
        /\ UNCHANGED graphemes
        /\ GraphemesOnly

\* replace(from, to) returns the sequence rewritten.
ReplaceAll ==
    \E from \in Queries, to \in Replacements :
        /\ g_call.op = "from"
        /\ g_call' = GCall("replace", from, to, DefaultStyle, 0, 0, 0,
                           StyledGraphemes_replace(graphemes, from, to))
        /\ UNCHANGED graphemes
        /\ GraphemesOnly

\* highlight(query, style) returns the sequence restyled, or None.
Highlight ==
    \E query \in Queries, style \in NewStyles :
        /\ g_call.op = "from"
        /\ g_call' = GCall("highlight", query, <<>>, style, 0, 0, 0,
                           highlight(graphemes, query, style))
        /\ UNCHANGED graphemes
        /\ GraphemesOnly

NextSearch == FindAll \/ ReplaceAll \/ Highlight

SpecSearch == InitSearch /\ [][NextSearch]_vars

\* The query occurs in g at the 0-based position p.
OccursAt(g, query, p) ==
    /\ p + Len(query) <= Len(g)
    /\ \A i \in 0..(Len(query) - 1) : g[p + i + 1].ch = query[i + 1]

\* C25: find_all(q) returns, in increasing order and without duplicates,
\* exactly the positions p with p + |q| <= |S| at which the chars of S equal
\* those of q, overlapping matches included; the empty query yields the
\* empty list.
C25_FindAll ==
    g_call.op = "find_all" =>
        LET out == g_call.out
            q == g_call.query
        IN  /\ \A i, k \in 1..Len(out) : i < k => out[i] < out[k]
            /\ q # <<>> =>
                   {out[i] : i \in 1..Len(out)} =
                       {p \in 0..Len(graphemes) : OccursAt(graphemes, q, p)}
            /\ q = <<>> => out = <<>>

\* find_all("aba") was called on "ababa", where the matches at 0 and 2
\* overlap.
C25_Witness ==
    /\ g_call.op = "find_all"
    /\ chars(graphemes) = <<97, 98, 97, 98, 97>>
    /\ g_call.query = <<97, 98, 97>>
    /\ g_call.out = <<0, 2>>

\* The ordinary replace-all substitution on strings: scanning from the
\* left, an occurrence of `from` is replaced by `to` and the scan goes on
\* after it, so that of overlapping occurrences only the first is replaced.
RECURSIVE StrReplace(_, _, _)
StrReplace(s, from, to) ==
    IF Len(s) < Len(from) THEN s
    ELSE IF SubSeq(s, 1, Len(from)) = from
    THEN to \o StrReplace(SubSeq(s, Len(from) + 1, Len(s)), from, to)
    ELSE <<Head(s)>> \o StrReplace(Tail(s), from, to)

\* No two occurrences of the query in g overlap.
NoOverlap(g, query) ==
    LET pos == find_all(g, query)
    IN  \A i, k \in 1..Len(pos) : i < k => pos[i] + Len(query) <= pos[k]

\* C26: replace(from, to) replaces the left-to-right non-overlapping
\* occurrences of `from` only: an occurrence overlapping one already
\* replaced is left as it is, so the result is that of the ordinary
\* replace-all substitution ("aba" in "ababa": position 0 only, "ba" kept).
C26_NonOverlappingOnly ==
    (g_call.op = "replace" /\ g_call.query # <<>>) =>
        chars(g_call.out) =
            StrReplace(chars(graphemes), g_call.query, g_call.to)

\* C27: when no two occurrences of a non-empty `from` overlap, the chars of
\* replace(from, to) are those of the ordinary replace-all substitution, for
\* `to` shorter than, as long as or longer than `from`; when `from` does not
\* occur the sequence is returned unchanged.
C27_ReplaceAll ==
    (/\ g_call.op = "replace"
     /\ g_call.query # <<>>
     /\ NoOverlap(graphemes, g_call.query)) =>
        /\ chars(g_call.out) =
               StrReplace(chars(graphemes), g_call.query, g_call.to)
        /\ find_all(graphemes, g_call.query) = <<>> =>
               g_call.out = graphemes

\* replace was called with a `from` occurring twice without overlap and a
\* `to` of another length, after the first occurrence.
C27_Witness ==
    /\ g_call.op = "replace"
    /\ g_call.query # <<>>
    /\ NoOverlap(graphemes, g_call.query)
    /\ Len(find_all(graphemes, g_call.query)) >= 2
    /\ Len(g_call.to) # Len(g_call.query)
    /\ g_call.to # <<>>
    /\ g_call.out # graphemes

\* The 0-based index i lies in the range of an occurrence of the query in g.
InMatch(g, query, i) ==
    LET pos == find_all(g, query)
    IN  \E k \in 1..Len(pos) : pos[k] <= i /\ i < pos[k] + Len(query)

\* What highlight returns when the query is empty or does not occur, and
\* the chars, widths and length of what it returns otherwise.
HighlightShape ==
    LET q == g_call.query
        out == g_call.out
    IN  /\ q = <<>> => out = <<graphemes>>
        /\ (q # <<>> /\ find_all(graphemes, q) = <<>>) => out = <<>>
        /\ (q # <<>> /\ find_all(graphemes, q) # <<>>) =>
               /\ Len(out) = 1
               /\ Len(out[1]) = Len(graphemes)
               /\ \A i \in 1..Len(graphemes) :
                      /\ out[1][i].ch = graphemes[i].ch
                      /\ out[1][i].width = graphemes[i].width

\* C28 as stated: highlight returns None for a non-empty query that does
\* not occur and Some of the unchanged sequence for the empty query;
\* otherwise Some of a sequence of the same chars and length in which a
\* grapheme carries the new style exactly when its index lies in the range
\* of an occurrence, every other grapheme keeping its previous style.
C28_Highlight_Stated ==
    g_call.op = "highlight" =>
        /\ HighlightShape
        /\ (g_call.query # <<>> /\ g_call.out # <<>>) =>
               \A i \in 1..Len(graphemes) :
                   /\ (g_call.out[1][i].style = g_call.style) <=>
                          InMatch(graphemes, g_call.query, i - 1)
                   /\ ~ InMatch(graphemes, g_call.query, i - 1) =>
                          g_call.out[1][i].style = graphemes[i].style

\* C28: as stated, but a grapheme outside every occurrence keeps its
\* previous style also when that style is the new one: the graphemes in the
\* range of an occurrence carry the new style, every other grapheme its
\* previous style.
C28_Highlight ==
    g_call.op = "highlight" =>
        /\ HighlightShape
        /\ (g_call.query # <<>> /\ g_call.out # <<>>) =>
               \A i \in 1..Len(graphemes) :
                   g_call.out[1][i].style =
                       IF InMatch(graphemes, g_call.query, i - 1)
                       THEN g_call.style
                       ELSE graphemes[i].style

\* highlight found two occurrences of the query and restyled a grapheme,
\* while a grapheme outside the occurrences had the new style before.
C28_Witness ==
    /\ g_call.op = "highlight"
    /\ g_call.out # <<>>
    /\ Len(find_all(graphemes, g_call.query)) >= 2
    /\ g_call.out[1] # graphemes
    /\ \E i \in 1..Len(graphemes) :
           /\ ~ InMatch(graphemes, g_call.query, i - 1)
           /\ graphemes[i].style = g_call.style

(***************************************************************************)
(* StyledGraphemes::matrixify on graphemes of width 0, 1 and 2.            *)
(***************************************************************************)
\* The longest sequence wrapped and the largest offset asked for.
MaxCells == 4
MaxOffset == 2

\* A combining acute accent (width 0), 'a' (width 1) and an emoji
\* (width 2), styled or not.
CellChars == {769, 97, 128526}
CellGraphemes ==
    {StyledGrapheme_new(ch, style) :
        ch \in CellChars, style \in {DefaultStyle, HighlightStyle}}
CellSeqs == StringsUpTo(CellGraphemes, MaxCells)

\* A sequence is given; nothing was called on it yet.
InitMatrix ==
    /\ graphemes \in CellSeqs
    /\ g_call = GCall("from", <<>>, <<>>, DefaultStyle, 0, 0, 0, <<>>)
    /\ NoEditor /\ NoViewer /\ NoPanes /\ NoConfirm /\ NoNodes /\ NoWidgets

\* matrixify(width, height, offset) borrows the sequence and returns the
\* rows with the offset left.
Matrixify ==
    \E width \in 0..MaxWidth, height \in 0..MaxCells, offset \in 0..MaxOffset :
        /\ g_call.op = "from"
        /\ g_call' = GCall("matrixify", <<>>, <<>>, DefaultStyle,
                           width, height, offset,
                           matrixify(graphemes, width, height, offset))
        /\ UNCHANGED graphemes
        /\ GraphemesOnly

RECURSIVE matrixify_for(_, _, _, _)
\* The loop of the free function matrixify (src/grapheme.rs): as the
\* wrapping loop of the method, but the open row is pushed at the end
\* whether it is empty or not.
matrixify_for(gs, width, ret, row) ==
    IF gs = <<>> THEN Append(ret, row)
    ELSE LET ch == Head(gs)
             full == row # <<>> /\ width < RowWidth(row) + ch.width
             ret1 == IF full THEN Append(ret, row) ELSE ret
             row1 == IF full THEN <<>> ELSE row
             row2 == IF width >= ch.width THEN Append(row1, ch) ELSE row1
         IN  matrixify_for(Tail(gs), width, ret1, row2)

\* matrixify(width, g) of src/grapheme.rs.
Graphemes_matrixify(width, g) == matrixify_for(g, width, <<>>, <<>>)

RECURSIVE trim_for(_, _, _)
RECURSIVE trim_for_Continue(_, _, _)

\* The loop of trim, going on after a grapheme that overflows.
trim_for_Continue(gs, width, row) ==
    IF gs = <<>> THEN row
    ELSE LET ch == Head(gs)
         IN  IF width < RowWidth(row) + ch.width
             THEN trim_for_Continue(Tail(gs), width, row)
             ELSE trim_for_Continue(Tail(gs), width, Append(row, ch))

\* The loop of trim: it breaks at the first grapheme with which the row
\* would be wider than `width`.
trim_for(gs, width, row) ==
    IF gs = <<>> THEN row
    ELSE LET ch == Head(gs)
         IN  IF width < RowWidth(row) + ch.width THEN row
             ELSE trim_for(Tail(gs), width,
                      IF width >= ch.width THEN Append(row, ch) ELSE row)

\* trim(width, g) of src/grapheme.rs.
trim(width, g) == trim_for(g, width, <<>>)

\* matrixify(width, g) borrows the sequence and returns the rows.
MatrixifyRows ==
    \E width \in 0..MaxWidth :
        /\ g_call.op = "from"
        /\ g_call' = GCall("matrixify_rows", <<>>, <<>>, DefaultStyle,
                           width, 0, 0, Graphemes_matrixify(width, graphemes))
        /\ UNCHANGED graphemes
        /\ GraphemesOnly

\* trim(width, g) borrows the sequence and returns the prefix.
Trim ==
    \E width \in 0..MaxWidth :
        /\ g_call.op = "from"
        /\ g_call' = GCall("trim", <<>>, <<>>, DefaultStyle,
                           width, 0, 0, trim(width, graphemes))
        /\ UNCHANGED graphemes
        /\ GraphemesOnly

NextMatrix == Matrixify \/ MatrixifyRows \/ Trim

SpecMatrix == InitMatrix /\ [][NextMatrix]_vars

\* The rows one after another.
RECURSIVE ConcatRows(_)
ConcatRows(rows) ==
    IF rows = <<>> THEN <<>> ELSE Head(rows) \o ConcatRows(Tail(rows))

\* The graphemes of g that fit a row of `width` columns, in order.
RECURSIVE Fitting(_, _)
Fitting(g, width) ==
    IF g = <<>> THEN <<>>
    ELSE IF Head(g).width <= width
    THEN <<Head(g)>> \o Fitting(Tail(g), width)
    ELSE Fitting(Tail(g), width)

\* The number of rows the sequence wraps into.
RowCount(g, width) == Len(matrixify(g, width, Len(g), 0).rows)

\* C29: for a width w >= 1, the rows of matrixify(w, h, 0) with h at least
\* the number of rows, one after another, are the sequence without its
\* graphemes wider than w: nothing else is lost, duplicated, reordered or
\* restyled.
C29_RowsConcat ==
    (/\ g_call.op = "matrixify"
     /\ g_call.width >= 1
     /\ g_call.offset = 0
     /\ g_call.height >= RowCount(graphemes, g_call.width)) =>
        ConcatRows(g_call.out.rows) = Fitting(graphemes, g_call.width)

\* A sequence with a grapheme too wide for the rows, graphemes of both
\* styles and of width 0 was wrapped at offset 0 into two rows or more,
\* the height being the number of rows.
C29_Witness ==
    /\ g_call.op = "matrixify"
    /\ g_call.width >= 1
    /\ g_call.offset = 0
    /\ g_call.height = RowCount(graphemes, g_call.width)
    /\ Len(g_call.out.rows) >= 2
    /\ \E i, j, k \in 1..Len(graphemes) :
           /\ graphemes[i].width > g_call.width
           /\ graphemes[j].style # graphemes[k].style
           /\ graphemes[j].width <= g_call.width
           /\ graphemes[k].width = 0

\* C30: every row matrixify returns is non-empty and at most `width`
\* columns wide, for graphemes of width 0, 1 and 2; the empty sequence
\* yields no rows and the offset 0.
C30_RowsFit ==
    g_call.op = "matrixify" =>
        /\ \A i \in 1..Len(g_call.out.rows) :
               /\ g_call.out.rows[i] # <<>>
               /\ RowWidth(g_call.out.rows[i]) <= g_call.width
        /\ graphemes = <<>> => g_call.out = [rows |-> <<>>, offset |-> 0]

\* Graphemes of width 0, 1 and 2 were wrapped into rows, a row was dropped
\* for the height and the offset asked for was not 0.
C30_Witness ==
    /\ g_call.op = "matrixify"
    /\ g_call.offset > 0
    /\ Len(g_call.out.rows) >= 2
    /\ Len(g_call.out.rows) < RowCount(graphemes, g_call.width)
    /\ \A w \in 0..2 :
           \E i \in 1..Len(g_call.out.rows) :
               \E k \in 1..Len(g_call.out.rows[i]) :
                   g_call.out.rows[i][k].width = w

\* Every row but the last is maximal: the first grapheme of the row after
\* it would not have fit in it.
Maximal(rows, width) ==
    \A i \in 1..(Len(rows) - 1) :
        rows[i + 1] # <<>> =>
            RowWidth(rows[i]) + rows[i + 1][1].width > width

\* Scenario S6: ">> 😎😎 ".
S6Graphemes == StyledGraphemes_from(<<62, 62, 32, 128526, 128526, 32>>)

\* The rows of strings as graphemes of the default style.
RowsFrom(strs) == [i \in 1..Len(strs) |-> StyledGraphemes_from(strs[i])]

\* C31: wrapping is greedy per grapheme: of the rows matrixify produces
\* before pagination every row is maximal, the first grapheme of the row
\* after it would not have fit in it; ">> 😎😎 " gives ">>", " ", "😎", "😎",
\* " " at width 2 and ">", ">", " ", " " at width 1.
C31_GreedyRows ==
    /\ g_call.op = "matrixify" =>
           Maximal(Wrap(graphemes, g_call.width, <<>>, <<>>), g_call.width)
    /\ g_call.op = "matrixify_rows" => Maximal(g_call.out, g_call.width)
    /\ g_call.op \in {"matrixify", "matrixify_rows"} =>
           /\ Graphemes_matrixify(2, S6Graphemes) =
                  RowsFrom(<<<<62, 62>>, <<32>>, <<128526>>, <<128526>>,
                             <<32>>>>)
           /\ Graphemes_matrixify(1, S6Graphemes) =
                  RowsFrom(<<<<62>>, <<62>>, <<32>>, <<32>>>>)

\* A prefix of g: its first n graphemes.
Prefix(g, n) == SubSeq(g, 1, n)

\* C33: trim(width, g) is the longest prefix of g whose display width is
\* at most `width`: it stops at the first grapheme that would overflow and
\* takes none after it; a single grapheme wider than `width` gives the
\* empty sequence.
C33_Trim ==
    g_call.op = "trim" =>
        LET n == Len(g_call.out)
        IN  /\ g_call.out = Prefix(graphemes, n)
            /\ RowWidth(g_call.out) <= g_call.width
            /\ \A k \in (n + 1)..Len(graphemes) :
                   RowWidth(Prefix(graphemes, k)) > g_call.width
            /\ (Len(graphemes) = 1 /\ graphemes[1].width > g_call.width) =>
                   g_call.out = <<>>

\* trim stopped at a grapheme that overflows, after taking one, and a
\* grapheme after it would have fit.
C33_Witness ==
    /\ g_call.op = "trim"
    /\ g_call.out # <<>>
    /\ Len(g_call.out) + 2 <= Len(graphemes)
    /\ \E k \in (Len(g_call.out) + 2)..Len(graphemes) :
           RowWidth(g_call.out) + graphemes[k].width <= g_call.width

\* The smaller of two numbers.
MinOf(a, b) == IF a <= b THEN a ELSE b

\* C32: with R > 0 wrapped rows and o = min(offset, R - 1), matrixify
\* returns all R rows and the offset o if R <= height, and otherwise the
\* window of exactly `height` rows starting at row k = min(o, R - height)
\* with the offset o - k; it never returns more than `height` rows.
C32_Pagination ==
    g_call.op = "matrixify" =>
        LET all == Wrap(graphemes, g_call.width, <<>>, <<>>)
            R == Len(all)
            height == g_call.height
            o == MinOf(g_call.offset, R - 1)
            k == MinOf(o, R - height)
        IN  /\ Len(g_call.out.rows) <= height
            /\ (R > 0 /\ R <= height) =>
                   g_call.out = [rows |-> all, offset |-> o]
            /\ (R > 0 /\ R > height) =>
                   g_call.out =
                       [rows |-> SubSeq(all, k + 1, k + height),
                        offset |-> o - k]

\* More rows than the height were wrapped, and the window returned starts
\* after the first row and ends before the last: rows were dropped from the
\* front while the offset lasted and from the back afterwards.
C32_Witness ==
    /\ g_call.op = "matrixify"
    /\ g_call.height >= 1
    /\ LET all == Wrap(graphemes, g_call.width, <<>>, <<>>)
       IN  /\ Len(all) > g_call.height
           /\ g_call.offset > 0
           /\ g_call.out.rows[1] # all[1]
           /\ g_call.out.rows[Len(g_call.out.rows)] # all[Len(all)]

(***************************************************************************)
(* Checkbox (promkit-widgets/src/checkbox/checkbox.rs): a listbox and the   *)
(* set of picked indices.  The Listbox is a non-cyclic cursor over the     *)
(* items, as section 4.D of the specification describes it.                *)
(***************************************************************************)
\* The most items of a checkbox and the most operations applied to one.
MaxItems == 4
MaxOps == 4

\* Listbox::from_displayable(items): every item is formatted and becomes a
\* StyledGraphemes; the cursor is on the first item.
Listbox_from_displayable(items) ==
    Cursor_new([i \in 1..Len(items) |-> StyledGraphemes_from(items[i])],
               0, FALSE)

\* Listbox::from_styled_graphemes(items).
Listbox_from_styled_graphemes(items) == Cursor_new(items, 0, FALSE)

\* Checkbox::from_displayable(items).
Checkbox_from_displayable(items) ==
    [listbox |-> Listbox_from_displayable(items), picked |-> {}]

\* Checkbox::from_styled_graphemes(items).
Checkbox_from_styled_graphemes(items) ==
    [listbox |-> Listbox_from_styled_graphemes(items), picked |-> {}]

\* Checkbox::new_with_checked(iter): the pairs are enumerated and unzipped
\* into the items and the flags; the indices of the true flags are picked.
Checkbox_new_with_checked(iter) ==
    LET listbox_items == [i \in 1..Len(iter) |-> iter[i].item]
        picked == [i \in 1..Len(iter) |-> iter[i].is_picked]
    IN  [listbox |-> Listbox_from_displayable(listbox_items),
         picked |-> {i - 1 : i \in {k \in 1..Len(picked) : picked[k]}}]

\* Checkbox::items() and Checkbox::position().
Checkbox_items(c) == c.listbox.contents
Checkbox_position(c) == c.listbox.position

\* Checkbox::toggle(), only ever inserting.
Checkbox_toggle_InsertOnly(c) ==
    [c EXCEPT !.picked = c.picked \cup {Checkbox_position(c)}]

\* Checkbox::toggle().
Checkbox_toggle(c) ==
    IF Checkbox_position(c) \in c.picked
    THEN [c EXCEPT !.picked = c.picked \ {Checkbox_position(c)}]
    ELSE [c EXCEPT !.picked = c.picked \cup {Checkbox_position(c)}]

\* Checkbox::backward / forward / move_to_head / move_to_tail.
Checkbox_backward(c) == [c EXCEPT !.listbox = Cursor_backward(c.listbox)]
Checkbox_forward(c) == [c EXCEPT !.listbox = Cursor_forward(c.listbox)]
Checkbox_move_to_head(c) ==
    [c EXCEPT !.listbox = Cursor_move_to_head(c.listbox)]
Checkbox_move_to_tail(c) ==
    [c EXCEPT !.listbox = Cursor_move_to_tail(c.listbox)]

\* The orders in which a HashSet may hand out its elements: every
\* enumeration of the set without repetition.
Orders(set) ==
    {o \in [1..Cardinality(set) -> set] :
        \A i, k \in 1..Cardinality(set) : i # k => o[i] # o[k]}

\* Checkbox::get(): the items at the picked indices in the iteration order
\* of the set; the unwrap panics on an index that has no item.
Checkbox_get(c) ==
    IF \E idx \in c.picked : idx >= Len(Checkbox_items(c))
    THEN {[panicked |-> TRUE, items |-> <<>>]}
    ELSE {[panicked |-> FALSE,
           items |-> [i \in 1..Len(o) |-> Checkbox_items(c)[o[i] + 1]]] :
             o \in Orders(c.picked)}

\* The items "A", "B", "C", "D" and the lists of the first n of them.
ItemNames == <<<<65>>, <<66>>, <<67>>, <<68>>, <<69>>>>
ItemLists == {SubSeq(ItemNames, 1, n) : n \in 0..MaxItems}
CheckedLists ==
    UNION {{[i \in 1..Len(items) |->
                [item |-> items[i], is_picked |-> flags[i]]] :
             flags \in [1..Len(items) -> BOOLEAN]} : items \in ItemLists}

\* Only the checkbox takes part in the steps of its operations.
CheckboxOnly ==
    UNCHANGED <<editorVars, viewerVars, paneVars, confirmVars, nodeVars,
                graphemeVars, switcherVars, selectVars>>

\* The record of a call: the operation, what it was given or returned, and
\* the operations applied since the construction.
CheckboxCall(op, arg, out, log) ==
    [op |-> op, arg |-> arg, out |-> out, log |-> log]

NoOutcome == [panicked |-> FALSE, items |-> <<>>]

\* The checkbox is built by one of its three constructors.
InitCheckbox ==
    /\ \/ \E items \in ItemLists :
             /\ checkbox = Checkbox_from_displayable(items)
             /\ checkbox_call =
                    CheckboxCall("from_displayable", items, NoOutcome, <<>>)
       \/ \E items \in ItemLists :
             LET styled ==
                     [i \in 1..Len(items) |-> StyledGraphemes_from(items[i])]
             IN  /\ checkbox = Checkbox_from_styled_graphemes(styled)
                 /\ checkbox_call =
                        CheckboxCall("from_styled_graphemes", styled,
                                     NoOutcome, <<>>)
       \/ \E iter \in CheckedLists :
             /\ checkbox = Checkbox_new_with_checked(iter)
             /\ checkbox_call =
                    CheckboxCall("new_with_checked", iter, NoOutcome, <<>>)
    /\ checkbox_pre = [last |-> checkbox, second |-> checkbox]
    /\ NoEditor /\ NoViewer /\ NoPanes /\ NoConfirm /\ NoNodes
    /\ NoGraphemes /\ NoSwitcher /\ NoSelect

CheckboxToggle ==
    /\ Len(checkbox_call.log) < MaxOps
    /\ checkbox' = Checkbox_toggle(checkbox)
    /\ checkbox_pre' = [last |-> checkbox, second |-> checkbox_pre.last]
    /\ checkbox_call' = CheckboxCall("toggle", <<>>, NoOutcome,
                                     Append(checkbox_call.log, "toggle"))
    /\ CheckboxOnly

CheckboxBackward ==
    /\ Len(checkbox_call.log) < MaxOps
    /\ checkbox' = Checkbox_backward(checkbox)
    /\ checkbox_pre' = [last |-> checkbox, second |-> checkbox_pre.last]
    /\ checkbox_call' = CheckboxCall("backward", <<>>, NoOutcome,
                                     Append(checkbox_call.log, "backward"))
    /\ CheckboxOnly

CheckboxForward ==
    /\ Len(checkbox_call.log) < MaxOps
    /\ checkbox' = Checkbox_forward(checkbox)
    /\ checkbox_pre' = [last |-> checkbox, second |-> checkbox_pre.last]
    /\ checkbox_call' = CheckboxCall("forward", <<>>, NoOutcome,
                                     Append(checkbox_call.log, "forward"))
    /\ CheckboxOnly

CheckboxMoveToHead ==
    /\ Len(checkbox_call.log) < MaxOps
    /\ checkbox' = Checkbox_move_to_head(checkbox)
    /\ checkbox_pre' = [last |-> checkbox, second |-> checkbox_pre.last]
    /\ checkbox_call' = CheckboxCall("move_to_head", <<>>, NoOutcome,
                                     Append(checkbox_call.log, "move_to_head"))
    /\ CheckboxOnly

CheckboxMoveToTail ==
    /\ Len(checkbox_call.log) < MaxOps
    /\ checkbox' = Checkbox_move_to_tail(checkbox)
    /\ checkbox_pre' = [last |-> checkbox, second |-> checkbox_pre.last]
    /\ checkbox_call' = CheckboxCall("move_to_tail", <<>>, NoOutcome,
                                     Append(checkbox_call.log, "move_to_tail"))
    /\ CheckboxOnly

\* get() borrows the checkbox; it ends the run of operations recorded.
CheckboxGet ==
    /\ checkbox_call.op # "get"
    /\ \E out \in Checkbox_get(checkbox) :
           checkbox_call' = CheckboxCall("get", <<>>, out, checkbox_call.log)
    /\ UNCHANGED <<checkbox, checkbox_pre>>
    /\ CheckboxOnly

NextCheckbox ==
    \/ CheckboxToggle
    \/ CheckboxBackward
    \/ CheckboxForward
    \/ CheckboxMoveToHead
    \/ CheckboxMoveToTail
    \/ CheckboxGet

SpecCheckbox == InitCheckbox /\ [][NextCheckbox]_vars

\* C34: toggle() flips the membership of the cursor index in the picked set
\* and changes no other index's membership, nor the items, nor the cursor
\* position; a second toggle right after restores the picked set; forward,
\* backward, move_to_head and move_to_tail never change the picked set.
C34_Toggle ==
    LET before == checkbox_pre.last
        at == Checkbox_position(before)
        log == checkbox_call.log
    IN  /\ checkbox_call.op = "toggle" =>
               /\ (at \in checkbox.picked) <=> (at \notin before.picked)
               /\ checkbox.picked \ {at} = before.picked \ {at}
               /\ checkbox.listbox = before.listbox
        /\ (/\ checkbox_call.op = "toggle"
            /\ Len(log) >= 2
            /\ log[Len(log) - 1] = "toggle") =>
               checkbox.picked = checkbox_pre.second.picked
        /\ checkbox_call.op \in
               {"forward", "backward", "move_to_head", "move_to_tail"} =>
               checkbox.picked = before.picked

\* A toggle unpicked the item under the cursor while another item stayed
\* picked, right after a toggle that had picked it, away from the head.
C34_Witness ==
    /\ checkbox_call.op = "toggle"
    /\ Len(checkbox_call.log) >= 3
    /\ checkbox_call.log[Len(checkbox_call.log) - 1] = "toggle"
    /\ Checkbox_position(checkbox) > 0
    /\ Checkbox_position(checkbox) \notin checkbox.picked
    /\ checkbox.picked # {}
    /\ checkbox_pre.last.picked # checkbox.picked

\* C35: for a checkbox built by any constructor from any item list, the
\* empty one included, after any operations the picked set is a subset of
\* {0..len-1}, so that get() never looks up an index that has no item;
\* new_with_checked picks exactly the indices whose flag is true and keeps
\* the items in order.
C35_PickedInRange ==
    /\ \A idx \in checkbox.picked : idx < Len(Checkbox_items(checkbox))
    /\ checkbox_call.op = "get" => ~ checkbox_call.out.panicked
    /\ checkbox_call.op = "new_with_checked" =>
           LET iter == checkbox_call.arg
           IN  /\ checkbox.picked =
                      {i - 1 : i \in {k \in 1..Len(iter) : iter[k].is_picked}}
               /\ Checkbox_items(checkbox) =
                      [i \in 1..Len(iter) |->
                          StyledGraphemes_from(iter[i].item)]

\* C36: for the items A, B, C, D the operations toggle, forward, forward,
\* toggle followed by get() return the sequence A, C in that order (no item
\* was picked at the start: only the first was before the last forward).
C36_ScenarioS3 ==
    (/\ checkbox_call.op = "get"
     /\ checkbox_call.log = <<"toggle", "forward", "forward", "toggle">>
     /\ chars(ConcatRows(Checkbox_items(checkbox))) = <<65, 66, 67, 68>>
     /\ checkbox_pre.second.picked = {0}) =>
        checkbox_call.out =
            [panicked |-> FALSE,
             items |-> <<StyledGraphemes_from(<<65>>),
                         StyledGraphemes_from(<<67>>)>>]

\* C37: in the Confirm prompt the error message is set exactly while the
\* latest event evaluated was an Enter whose validation failed: after a
\* failed Enter the message is set, and an event for which the evaluator
\* returns true (any other event, or Enter on an accepted text) leaves the
\* error-message widget's after state equal to its init state.
C37_ErrorMessageShown ==
    LET msg == confirm.viewables.error_message_state
        failed == IsEnterPress(confirm_call.event) /\ ~ confirm_call.ret
    IN  /\ failed <=> (msg.after.text = ConfirmErrorMessage)
        /\ failed <=> ~ confirm_call.ret
        /\ confirm_call.ret => msg.after = msg.init
        /\ msg.init = confirm_pre.viewables.error_message_state.init

\* A key was typed right after an Enter that had failed: the message set by
\* that Enter was taken back.
C37_Witness ==
    /\ confirm_pre.viewables.error_message_state.after.text =
           ConfirmErrorMessage
    /\ confirm_call.ret
    /\ ~ IsEnterPress(confirm_call.event)
    /\ confirm.viewables.error_message_state.after =
           confirm.viewables.error_message_state.init
    /\ confirm.viewables.error_message_state.before.text =
           ConfirmErrorMessage

\* C39: word-wise navigation makes progress for every buffer and every
\* word-break set, the empty one and those with the space included:
\* move_to_previous_nearest strictly decreases a position > 0 and
\* move_to_next_nearest strictly increases a position < len - 1; at the
\* head, respectively on the sentinel, they leave the position where it
\* is, so that either one repeated arrives there within len - 1 steps.
C39_WordProgress ==
    LET len == Len(pre.contents)
    IN  /\ call.op = "move_to_previous_nearest" =>
               /\ pre.position > 0 => editor.position < pre.position
               /\ pre.position = 0 => editor.position = 0
               /\ editor.position >= 0
        /\ call.op = "move_to_next_nearest" =>
               /\ pre.position < len - 1 => editor.position > pre.position
               /\ pre.position = len - 1 => editor.position = len - 1
               /\ editor.position <= len - 1
        /\ call.op \in {"move_to_previous_nearest", "move_to_next_nearest"} =>
               editor.contents = pre.contents

\* move_to_previous_nearest was called with the space among the word
\* breaks and a space just before the cursor, and the cursor moved back.
C39_Witness ==
    /\ call.op = "move_to_previous_nearest"
    /\ SPACE \in call.wbc
    /\ pre.position >= 2
    /\ pre.contents[pre.position].ch = SPACE
    /\ editor.position < pre.position

(***************************************************************************)
(* The select state (src/select/state.rs): the line of the select box the  *)
(* cursor is drawn on, a u16, moved within the lines the terminal leaves.   *)
(***************************************************************************)
\* The most rows of the terminal, items of the select box and lines of the
\* window.
MaxRows == 3
MaxSelect == 3
MaxWindow == 2

\* u16 arithmetic: a subtraction below zero panics in a build with overflow
\* checks and wraps around in a build without.
U16 == 65536
u16_sub(a, b) == [value |-> (a - b + U16) % U16, underflow |-> a < b]

\* The smallest of three numbers (Iterator::min).
Min3(a, b, c) == MinOf(a, MinOf(b, c))

\* State::selectbox_lines(selectbox): the lines left below the title, cut
\* to the window, if there is one, and to the number of items.
State_selectbox_lines(st) ==
    LET left_space ==
            u16_sub(st.rows, st.init_move_down_lines + st.title_lines)
        window == IF st.window = <<>> THEN left_space.value
                  ELSE st.window[1]
    IN  [value |-> Min3(left_space.value, window, st.len % U16),
         underflow |-> left_space.underflow]

\* What a call leaves: the state and whether a subtraction went below
\* zero.  With overflow checks the call panics at the subtraction and the
\* state is as before; without them the wrapped value is used.
SelectOutcome(st, next, underflow) ==
    [state |-> IF underflow /\ st.overflow_checks
               THEN [st EXCEPT !.panicked = TRUE]
               ELSE next,
     underflow |-> underflow]

\* State::move_up().
State_move_up(st) ==
    SelectOutcome(st,
        IF st.selected_cursor_pos = 0
        THEN [st EXCEPT !.selected_cursor_pos = 0]
        ELSE [st EXCEPT !.selected_cursor_pos = st.selected_cursor_pos - 1],
        FALSE)

\* State::move_down().
State_move_down(st) ==
    LET lines == State_selectbox_lines(st)
        limit == lines.value - 1
    IN  SelectOutcome(st,
            IF lines.value > 0
            THEN IF st.selected_cursor_pos >= limit
                 THEN [st EXCEPT !.selected_cursor_pos = limit]
                 ELSE [st EXCEPT !.selected_cursor_pos =
                                     (st.selected_cursor_pos + 1) % U16]
            ELSE st,
            lines.underflow)

\* State::move_head().
State_move_head(st) ==
    SelectOutcome(st, [st EXCEPT !.selected_cursor_pos = 0], FALSE)

\* State::move_tail().
State_move_tail(st) ==
    LET lines == State_selectbox_lines(st)
        tail == u16_sub(lines.value, 1)
    IN  SelectOutcome(st, [st EXCEPT !.selected_cursor_pos = tail.value],
                      lines.underflow \/ tail.underflow)

\* Only the select state takes part in the steps of its operations.
SelectOnly ==
    UNCHANGED <<editorVars, viewerVars, paneVars, confirmVars, nodeVars,
                graphemeVars, checkboxVars, switcherVars>>

\* The select state of a terminal of some rows, with the lines used above
\* the select box, a window or none, and some items; the cursor is on the
\* first line.  The build checks overflows or does not.
InitSelect ==
    /\ \E rows \in 1..MaxRows, init_move_down_lines \in 0..1,
          title_lines \in 0..1, len \in 0..MaxSelect,
          window \in {<<>>} \cup {<<w>> : w \in 0..MaxWindow},
          overflow_checks \in BOOLEAN :
          select = [selected_cursor_pos |-> 0,
                    init_move_down_lines |-> init_move_down_lines,
                    title_lines |-> title_lines,
                    window |-> window,
                    len |-> len,
                    rows |-> rows,
                    overflow_checks |-> overflow_checks,
                    panicked |-> FALSE]
    /\ select_pre = select
    /\ select_call = [op |-> "new", underflow |-> FALSE]
    /\ NoEditor /\ NoViewer /\ NoPanes /\ NoConfirm /\ NoNodes
    /\ NoGraphemes /\ NoCheckbox /\ NoSwitcher

SelectMoveUp ==
    /\ ~ select.panicked /\ ~ select_call.underflow
    /\ select' = State_move_up(select).state
    /\ select_pre' = select
    /\ select_call' = [op |-> "move_up",
                       underflow |-> State_move_up(select).underflow]
    /\ SelectOnly

SelectMoveDown ==
    /\ ~ select.panicked /\ ~ select_call.underflow
    /\ select' = State_move_down(select).state
    /\ select_pre' = select
    /\ select_call' = [op |-> "move_down",
                       underflow |-> State_move_down(select).underflow]
    /\ SelectOnly

SelectMoveHead ==
    /\ ~ select.panicked /\ ~ select_call.underflow
    /\ select' = State_move_head(select).state
    /\ select_pre' = select
    /\ select_call' = [op |-> "move_head",
                       underflow |-> State_move_head(select).underflow]
    /\ SelectOnly

SelectMoveTail ==
    /\ ~ select.panicked /\ ~ select_call.underflow
    /\ select' = State_move_tail(select).state
    /\ select_pre' = select
    /\ select_call' = [op |-> "move_tail",
                       underflow |-> State_move_tail(select).underflow]
    /\ SelectOnly

\* A run is followed up to its first subtraction below zero.
NextSelect ==
    \/ SelectMoveUp
    \/ SelectMoveDown
    \/ SelectMoveHead
    \/ SelectMoveTail

SpecSelect == InitSelect /\ [][NextSelect]_vars

\* C40: for every item count, none included, and every terminal geometry,
\* after any moves selected_cursor_pos is below max(1, selectbox_lines);
\* move_up at 0 and move_down at selectbox_lines - 1 leave it unchanged; no
\* move performs a u16 subtraction that underflows.
C40_CursorInBox ==
    LET lines == State_selectbox_lines(select).value
    IN  /\ select.selected_cursor_pos < (IF lines >= 1 THEN lines ELSE 1)
        /\ ~ select_call.underflow
        /\ ~ select.panicked
        /\ (select_call.op = "move_up" /\ select_pre.selected_cursor_pos = 0)
               => select.selected_cursor_pos = 0
        /\ (/\ select_call.op = "move_down"
            /\ select_pre.selected_cursor_pos = lines - 1) =>
               select.selected_cursor_pos = lines - 1

(***************************************************************************)
(* Renderer::evaluate of the JSON preset (promkit/src/preset/json/         *)
(* render.rs): the keymap switcher lives in a RefCell; a keymap is the      *)
(* handler function it names.  The switcher itself is as section 4.G of    *)
(* the specification describes it: a table of named keymaps and the        *)
(* active name.                                                            *)
(***************************************************************************)
\* The most events evaluated in a run.
MaxEvaluations == 4

\* The keymaps registered and the events of the terminal.
KeymapNames == {"default", "search"}
TerminalEvents == {"key", "resize"}

\* What a handler does with the switcher: nothing, or activate a keymap.
NoSwitch == "none"
HandlerMoves == {NoSwitch} \cup KeymapNames

\* RefCell::borrow_mut(): panics if the cell is borrowed, else the cell is
\* borrowed until the guard is dropped.
RefCell_borrow_mut(cell) ==
    [cell |-> [cell EXCEPT !.borrowed = TRUE], panicked |-> cell.borrowed]

\* Dropping the RefMut guard.
RefMut_drop(cell) == [cell EXCEPT !.borrowed = FALSE]

\* ActiveKeySwitcher::get() and ActiveKeySwitcher::switch(name).
ActiveKeySwitcher_get(sw) == sw.active
ActiveKeySwitcher_switch(sw, name) == [sw EXCEPT !.active = name]

\* The first statement of evaluate with the guard kept to the end of the
\* function.
Renderer_evaluate_keymap_Held(cell) ==
    LET guard == RefCell_borrow_mut(cell)
    IN  [keymap |-> ActiveKeySwitcher_get(guard.cell.value),
         cell |-> guard.cell,
         panicked |-> guard.panicked]

\* `let keymap = *self.keymap.borrow_mut().get();`: the handler of the
\* active keymap is copied out, and the guard, a temporary of the
\* statement, is dropped at its end.
Renderer_evaluate_keymap(cell) ==
    LET guard == RefCell_borrow_mut(cell)
    IN  [keymap |-> ActiveKeySwitcher_get(guard.cell.value),
         cell |-> RefMut_drop(guard.cell),
         panicked |-> guard.panicked]

\* A handler called on the renderer: it may borrow the switcher to
\* activate a keymap.
Keymap_handler(cell, move) ==
    IF move = NoSwitch THEN [cell |-> cell, panicked |-> FALSE]
    ELSE LET guard == RefCell_borrow_mut(cell)
         IN  IF guard.panicked THEN [cell |-> cell, panicked |-> TRUE]
             ELSE [cell |->
                       RefMut_drop(
                           [guard.cell EXCEPT
                               !.value = ActiveKeySwitcher_switch(
                                             guard.cell.value, move)]),
                   panicked |-> FALSE]

\* Renderer::evaluate(event): the cell after it, the handler it called and
\* whether a borrow panicked.
Renderer_evaluate(cell, event, move) ==
    LET first == Renderer_evaluate_keymap(cell)
        called == Keymap_handler(first.cell, move)
    IN  [cell |-> called.cell,
         keymap |-> first.keymap,
         panicked |-> first.panicked \/ called.panicked]

\* Only the renderer's switcher takes part in the steps of evaluate.
SwitcherOnly ==
    UNCHANGED <<editorVars, viewerVars, paneVars, confirmVars, nodeVars,
                graphemeVars, checkboxVars, selectVars>>

\* The renderer is built with the default keymap active; no event was
\* evaluated.  `evaluating.calls` holds, for every event evaluated, the
\* event, the handler called for it and what that handler did.
InitSwitcher ==
    /\ switcher = [value |-> [active |-> "default"], borrowed |-> FALSE]
    /\ evaluating = [calls |-> <<>>, panicked |-> FALSE]
    /\ NoEditor /\ NoViewer /\ NoPanes /\ NoConfirm /\ NoNodes
    /\ NoGraphemes /\ NoCheckbox /\ NoSelect

\* The prompt evaluates an event: evaluate runs to its end, the handler it
\* calls included.
Evaluate ==
    /\ ~ evaluating.panicked
    /\ Len(evaluating.calls) < MaxEvaluations
    /\ \E event \in TerminalEvents, move \in HandlerMoves :
          LET done == Renderer_evaluate(switcher, event, move)
          IN  /\ switcher' = done.cell
              /\ evaluating' =
                     [calls |-> Append(evaluating.calls,
                                       [event |-> event,
                                        keymap |-> done.keymap,
                                        move |-> move]),
                      panicked |-> done.panicked]
              /\ SwitcherOnly

NextSwitcher == Evaluate

SpecSwitcher == InitSwitcher /\ [][NextSwitcher]_vars

\* The keymap active after a call of a handler.
ActiveAfter(c) == IF c.move = NoSwitch THEN c.keymap ELSE c.move

\* C38: evaluate copies the active keymap's handler out of the RefCell and
\* releases the borrow before the handler runs, and calls the handler once
\* per event: a handler that borrows the switcher to activate another
\* keymap never meets an outstanding borrow, and its switch for event N
\* takes effect for event N + 1 and not for event N.
C38_EvaluateBorrow ==
    LET calls == evaluating.calls
    IN  /\ ~ evaluating.panicked
        /\ ~ switcher.borrowed
        /\ calls # <<>> => calls[1].keymap = "default"
        /\ \A n \in 1..(Len(calls) - 1) :
               calls[n + 1].keymap = ActiveAfter(calls[n])
        /\ calls # <<>> =>
               switcher.value.active = ActiveAfter(calls[Len(calls)])

\* A handler activated the search keymap during an event it was itself
\* called for as the default keymap's, and the next event went to the
\* search keymap's handler.
C38_Witness ==
    /\ Len(evaluating.calls) >= 2
    /\ \E n \in 1..(Len(evaluating.calls) - 1) :
           /\ evaluating.calls[n].keymap = "default"
           /\ evaluating.calls[n].move = "search"
           /\ evaluating.calls[n + 1].keymap = "search"
    /\ ~ evaluating.panicked

====
